---- MODULE Spec2Model ----
(***************************************************************************)
(* A model of the casepulse-backend court scrapers: the Bombay High Court, *)
(* Delhi High Court, Supreme Court, NCLAT and CERC adapters.               *)
(*                                                                         *)
(* Python strings are sequences of one-character strings, so that the      *)
(* regular expressions of the code are computed character by character.    *)
(* Python's None is the model value NULL.                                  *)
(***************************************************************************)
EXTENDS Integers, Sequences, FiniteSets, TLC

VARIABLES
    txt_fn,         \* the text function last applied ("" before any)
    txt_in,         \* its argument
    txt_out,        \* its result
    txt_again,      \* the result of applying it to its own result (NULL before)
    m_party,        \* Supreme Court search: party_name
    m_name_norm,    \* Supreme Court search: name_norm (NULL before it is set)
    m_index,        \* Supreme Court search: page_index of the next page
    m_text,         \* Supreme Court search: the text of the page last read
    matched_pages,  \* Supreme Court search: matched_pages
    r_court,        \* search_range: the adapter called
    r_start,        \* search_range: start_date, as given
    r_end,          \* search_range: end_date, as given
    r_pc,           \* search_range: "idle", "call", "loop", "returned" or "raised"
    r_current,      \* search_range: current (NULL before the loop)
    r_end_dt,       \* search_range: end_dt (NULL before the loop)
    r_days,         \* the per-day searches made so far: the date passed,
                    \* whether the search raised, and the records it returned
    all_results,    \* search_range: all_results
    r_error,        \* the message of the exception raised to the caller, or NULL
    c_files,        \* DocumentCache: for each identity "absent", "partial"
                    \* (created, not all written) or "complete"
    c_preexisting,  \* the identities stored before the process started
    c_pc,           \* download_pdf of each scan: "idle", "get", "write", "writing"
    c_call,         \* download_pdf of each scan: the identity asked for, whether
                    \* its path existed when tested, the requests sent since
    c_ret,          \* what the last download_pdf of each scan did
    c_calls,        \* the number of download_pdf calls each scan has made
    c_gets,         \* for each identity, the requests sent for it
    c_downloaded,   \* for each identity, the requests that brought the document
    c_returned,     \* for each identity, the calls that returned its path
    n_start,        \* nclat.search_range: start_date, as given
    n_end,          \* nclat.search_range: end_date, as given
    n_pc,           \* nclat.search_range: "idle", "call", "page" (about to ask
                    \* for a listing page), "rows", "scan", "returned", "raised"
    n_start_dt,     \* nclat.search_range: start_dt (NULL before it is parsed)
    n_end_dt,       \* nclat.search_range: end_dt
    n_page,         \* nclat.download_pdfs: page
    n_rows_left,    \* nclat.download_pdfs: the rows of the page not yet read
    n_stop_paging,  \* nclat.download_pdfs: stop_paging
    n_pdf_files,    \* nclat.download_pdfs: pdf_files, each path with the date
                    \* of the listing row that gave it
    n_listing_gets, \* the listing pages asked for
    n_pdf_gets,     \* the documents asked for
    n_scanned,      \* nclat.search_range: the number of pdfs searched
    n_results,      \* nclat.search_range: all_results
    n_error,        \* the exception raised to the caller, or NULL
    n_row,          \* nclat.download_pdfs: row_dt of the row last read (NULL
                    \* before the first, and for a row without a date)
    e_adapter,      \* the adapter whose search extracts: "supreme", "nclat", "cerc"
    e_pc,           \* that search: "idle", "pages", "returned", "raised"
    e_npages,       \* the pages of the document it reads
    e_index,        \* the pages it has dealt with
    e_results,      \* its results: for each record the page it came from
    e_failed,       \* the matched pages whose structured extraction failed
    e_error,        \* the exception raised to the caller, or NULL
    b_fn,           \* the browser call: "bombay.search", "delhi.monitor",
                    \* "supreme.monitor"
    b_args,         \* bombay.search: whether party_name and date are both given
    b_pc,           \* the call: "idle", "call", "steps", "rows", "record_view",
                    \* "next", "returned", "raised"
    b_step,         \* the step of the form filling it is at
    b_session,      \* the browser: "none", "open", "closed"
    b_rows_left,    \* the rows (nodes) of the result page not yet read
    b_page,         \* supreme.monitor: the result pages read
    b_results,      \* the results gathered
    b_failed,       \* whether a step could not find its element or timed out
    b_error,        \* the exception raised to the caller, or NULL
    b_ret,          \* the list returned to the caller, or NULL
    t_pc,           \* extract_cases_from_table: "idle", "rows", "returned"
    t_rows,         \* the rows of the table read so far, as the page gives them
    t_results,      \* extract_cases_from_table: results
    t_current,      \* current_main_case: its place in results, 0 for None
    t_last_case_no, \* extract_cases_from_table: last_case_no
    w_pc,           \* the node walk of bombay.search: "idle", "walk", "returned"
    w_nodes,        \* the h3 and table nodes of #tb_causelist, in document order
    w_i,            \* the nodes walked
    w_current_bench,    \* bombay.search: current_bench
    w_current_time,     \* bombay.search: current_time
    w_current_court_no, \* bombay.search: current_court_no
    w_results,      \* bombay.search: all_results
    h_pages,        \* the pages of the PDF: what each states of the hints
    h_start,        \* extract_judge_court_time: start_page_index
    h_pc,           \* extract_judge_court_time: "idle", "scan", "returned"
    h_i,            \* extract_judge_court_time: i
    h_judges,       \* extract_judge_court_time: judges
    h_court_no,     \* extract_judge_court_time: court_no
    h_court_time,   \* extract_judge_court_time: court_time
    p_npages,       \* supreme_court.search: the pages of the PDF
    p_pc,           \* supreme_court.search: "idle", "phase1", "phase2",
                    \* "returned", "raised"
    p_name_norm,    \* name_norm
    p_blank,        \* the pages whose extract_text() gave no text
    p_index,        \* phase 1: page_index
    p_table,        \* matched_pages: the slots of the set's hash table
    p_todo,         \* phase 2: the pages still to come, in the set's order
    p_results,      \* final_results: for each record the page it came from
    o_opened        \* the files opened by the scans after download_pdf returned:
                    \* the scan, the identity and the state of the file

textVars == <<txt_fn, txt_in, txt_out, txt_again>>

matchVars == <<m_party, m_name_norm, m_index, m_text, matched_pages>>

rangeVars == <<r_court, r_start, r_end, r_pc, r_current, r_end_dt, r_days,
               all_results, r_error>>

cacheVars == <<c_files, c_preexisting, c_pc, c_call, c_ret, c_calls, c_gets,
               c_downloaded, c_returned>>

nclatVars == <<n_start, n_end, n_pc, n_start_dt, n_end_dt, n_page, n_rows_left,
               n_stop_paging, n_pdf_files, n_listing_gets, n_pdf_gets,
               n_scanned, n_results, n_error, n_row>>

extractVars == <<e_adapter, e_pc, e_npages, e_index, e_results, e_failed, e_error>>

browserVars == <<b_fn, b_args, b_pc, b_step, b_session, b_rows_left, b_page,
                 b_results, b_failed, b_error, b_ret>>

tableVars == <<t_pc, t_rows, t_results, t_current, t_last_case_no>>

walkVars == <<w_pc, w_nodes, w_i, w_current_bench, w_current_time,
              w_current_court_no, w_results>>

hintVars == <<h_pages, h_start, h_pc, h_i, h_judges, h_court_no, h_court_time>>

pdfVars == <<p_npages, p_pc, p_name_norm, p_blank, p_index, p_table, p_todo,
            p_results>>

raceVars == <<o_opened>>

vars == <<textVars, matchVars, rangeVars, cacheVars, nclatVars, extractVars,
          browserVars, tableVars, walkVars, hintVars, pdfVars, raceVars>>

\* what the text functions leave alone
notText == <<matchVars, rangeVars, cacheVars, nclatVars, extractVars, browserVars, tableVars, walkVars, hintVars, pdfVars,
      raceVars>>

\* what the page matcher leaves alone
notMatch == <<textVars, rangeVars, cacheVars, nclatVars, extractVars, browserVars, tableVars, walkVars, hintVars, pdfVars,
      raceVars>>

\* what the daily range scan leaves alone
notRange == <<textVars, matchVars, cacheVars, nclatVars, extractVars, browserVars, tableVars, walkVars, hintVars, pdfVars,
      raceVars>>

\* what the document cache leaves alone
notCache == <<textVars, matchVars, rangeVars, nclatVars, extractVars, browserVars, tableVars, walkVars, hintVars, pdfVars,
      raceVars>>

\* what the NCLAT adapter leaves alone: its documents are files of the cache
notNclat == <<textVars, matchVars, rangeVars, c_preexisting, c_pc, c_call,
              c_ret, c_calls, c_gets, c_downloaded, c_returned, extractVars,
              browserVars, tableVars, walkVars, hintVars, pdfVars,
      raceVars>>

\* what the extracting searches leave alone
notExtract == <<textVars, matchVars, rangeVars, cacheVars, nclatVars, browserVars, tableVars, walkVars, hintVars, pdfVars,
      raceVars>>

\* what the browser calls leave alone
notBrowser == <<textVars, matchVars, rangeVars, cacheVars, nclatVars, extractVars, tableVars, walkVars, hintVars, pdfVars,
      raceVars>>

\* what the reading of a table leaves alone
notTable == <<textVars, matchVars, rangeVars, cacheVars, nclatVars, extractVars,
             browserVars, walkVars, hintVars, pdfVars, raceVars>>

\* what the node walk leaves alone
notWalk == <<textVars, matchVars, rangeVars, cacheVars, nclatVars, extractVars,
            browserVars, tableVars, hintVars, pdfVars, raceVars>>

\* what the scan for hints leaves alone
notHints == <<textVars, matchVars, rangeVars, cacheVars, nclatVars, extractVars,
             browserVars, tableVars, walkVars, pdfVars, raceVars>>

\* what the search of a PDF leaves alone
notPdf == <<textVars, matchVars, rangeVars, cacheVars, nclatVars, extractVars,
           browserVars, tableVars, walkVars, hintVars, raceVars>>

\* what the opening of a fetched file leaves alone
notRace == <<textVars, matchVars, rangeVars, cacheVars, nclatVars, extractVars,
            browserVars, tableVars, walkVars, hintVars, pdfVars>>

NULL == "None"

----------------------------------------------------------------------------
(* Characters and strings *)

\* str(...) of the model: the characters of a word, one by one
NA == <<"N", "/", "A">>

WhiteSpace == {" ", "\n", "\t"}

LowerLetters == {"a","b","c","d","e","f","g","h","i","j","k","l","m",
                 "n","o","p","q","r","s","t","u","v","w","x","y","z"}

UpperLetters == {"A","B","C","D","E","F","G","H","I","J","K","L","M",
                 "N","O","P","Q","R","S","T","U","V","W","X","Y","Z"}

Digits == {"0","1","2","3","4","5","6","7","8","9"}

\* regex \s
IsSpace(c) == c \in WhiteSpace

\* regex \w
IsWord(c) == c \in LowerLetters \cup UpperLetters \cup Digits \cup {"_"}

\* str.lower() of one character
LowerChar(c) ==
    CASE c = "A" -> "a" [] c = "B" -> "b" [] c = "C" -> "c" [] c = "D" -> "d"
      [] c = "E" -> "e" [] c = "F" -> "f" [] c = "G" -> "g" [] c = "H" -> "h"
      [] c = "I" -> "i" [] c = "J" -> "j" [] c = "K" -> "k" [] c = "L" -> "l"
      [] c = "M" -> "m" [] c = "N" -> "n" [] c = "O" -> "o" [] c = "P" -> "p"
      [] c = "Q" -> "q" [] c = "R" -> "r" [] c = "S" -> "s" [] c = "T" -> "t"
      [] c = "U" -> "u" [] c = "V" -> "v" [] c = "W" -> "w" [] c = "X" -> "x"
      [] c = "Y" -> "y" [] c = "Z" -> "z" [] OTHER -> c

\* str.lower()
Lower(s) == [i \in 1..Len(s) |-> LowerChar(s[i])]

\* the number of whitespace characters of s from index i on (regex \s+, greedy)
RECURSIVE SpaceRun(_, _)
SpaceRun(s, i) ==
    IF i <= Len(s) /\ IsSpace(s[i]) THEN 1 + SpaceRun(s, i + 1) ELSE 0

\* the number of whitespace characters of s ending at index i
RECURSIVE SpaceRunBack(_, _)
SpaceRunBack(s, i) ==
    IF i >= 1 /\ IsSpace(s[i]) THEN 1 + SpaceRunBack(s, i - 1) ELSE 0

\* str.strip()
Strip(s) ==
    LET a == SpaceRun(s, 1)
        b == SpaceRunBack(s, Len(s))
    IN IF a = Len(s) THEN <<>> ELSE SubSeq(s, a + 1, Len(s) - b)

\* regex \b at the gap before index i of s (1-based; i = Len(s) + 1 is the end)
WordBoundary(s, i) ==
    LET before == i >= 2 /\ i - 1 <= Len(s) /\ IsWord(s[i - 1])
        after  == i >= 1 /\ i <= Len(s) /\ IsWord(s[i])
    IN before # after

\* s has the word w (already lower case) at index i, ignoring case
HasAt(s, i, w) ==
    /\ i >= 1
    /\ i + Len(w) - 1 <= Len(s)
    /\ \A k \in 1..Len(w) : LowerChar(s[i + k - 1]) = w[k]

\* the strings over an alphabet of pieces, of at most n pieces
RECURSIVE PiecesUpTo(_, _)
PiecesUpTo(P, n) ==
    IF n = 0 THEN {<<>>}
    ELSE LET shorter == PiecesUpTo(P, n - 1)
         IN shorter \cup {s \o p : s \in shorter, p \in P}

----------------------------------------------------------------------------
(* ResultNormalizer: the party splitters *)

\* the length of the match of \s+v(?:s\.?)?\s+ (IGNORECASE) at index i, 0 if none
VsMatchLen(s, i) ==
    LET lead == SpaceRun(s, i)
        j    == i + lead
    IN IF lead = 0 \/ ~HasAt(s, j, <<"v">>) THEN 0
       ELSE LET afterVsDot == IF HasAt(s, j + 1, <<"s", ".">>)
                              THEN SpaceRun(s, j + 3) ELSE 0
                afterVs    == IF HasAt(s, j + 1, <<"s">>)
                              THEN SpaceRun(s, j + 2) ELSE 0
                afterV     == SpaceRun(s, j + 1)
            IN IF afterVsDot > 0 THEN lead + 3 + afterVsDot
               ELSE IF afterVs > 0 THEN lead + 2 + afterVs
               ELSE IF afterV > 0 THEN lead + 1 + afterV
               ELSE 0

\* re.split(r"\s+v(?:s\.?)?\s+", s, flags=re.IGNORECASE), scanning from index i,
\* the current piece starting at index st
RECURSIVE VsSplitFrom(_, _, _)
VsSplitFrom(s, i, st) ==
    IF i > Len(s) THEN <<SubSeq(s, st, Len(s))>>
    ELSE LET n == VsMatchLen(s, i)
         IN IF n > 0
            THEN <<SubSeq(s, st, i - 1)>> \o VsSplitFrom(s, i + n, i + n)
            ELSE VsSplitFrom(s, i + 1, st)

VsSplit(s) == VsSplitFrom(s, 1, 1)

\* bombay_high_court.split_parties
split_parties(parties) ==
    IF parties = <<>> THEN <<NA, NA>>
    ELSE LET parts == VsSplit(parties)
         IN IF Len(parts) = 2 THEN <<Strip(parts[1]), Strip(parts[2])>>
            ELSE <<Strip(parties), NA>>

\* nclat.split_parties: no guard for an empty string, no strip
nclat_split_parties(parties) ==
    LET parts == VsSplit(parties)
    IN IF Len(parts) = 2 THEN <<parts[1], parts[2]>>
       ELSE <<parties, NA>>

\* delhi_high_court.split_parties (the same text as the Bombay one)
delhi_split_parties(parties) ==
    IF parties = <<>> THEN <<NA, NA>>
    ELSE LET parts == VsSplit(parties)
         IN IF Len(parts) = 2 THEN <<Strip(parts[1]), Strip(parts[2])>>
            ELSE <<Strip(parties), NA>>

\* the index of the first character c of s at or after index i on the same line,
\* 0 if there is none (regex .*? followed by c: "." takes no newline)
RECURSIVE FirstOnLine(_, _, _)
FirstOnLine(s, i, c) ==
    IF i > Len(s) THEN 0
    ELSE IF s[i] = c THEN i
    ELSE IF s[i] = "\n" THEN 0
    ELSE FirstOnLine(s, i + 1, c)

\* re.sub(r"\{.*?\}|\[.*?\]", "", s) from index i on
RECURSIVE StripBracketsFrom(_, _)
StripBracketsFrom(s, i) ==
    IF i > Len(s) THEN <<>>
    ELSE LET close == IF s[i] = "{" THEN FirstOnLine(s, i + 1, "}")
                      ELSE IF s[i] = "[" THEN FirstOnLine(s, i + 1, "]")
                      ELSE 0
         IN IF close > 0 THEN StripBracketsFrom(s, close + 1)
            ELSE <<s[i]>> \o StripBracketsFrom(s, i + 1)

StripBrackets(s) == StripBracketsFrom(s, 1)

\* the length of the match of \bversus\b|\bvs\.?\b|\bv\.?\b (IGNORECASE) at
\* index i, 0 if none; the alternatives are tried in order, "\.?" is greedy and
\* gives the dot back when no \b follows it
VersusMatchLen(s, i) ==
    LET dotted(k) == HasAt(s, i + k, <<".">>) /\ WordBoundary(s, i + k + 1)
    IN IF ~WordBoundary(s, i) THEN 0
       ELSE IF HasAt(s, i, <<"v","e","r","s","u","s">>) /\ WordBoundary(s, i + 6)
       THEN 6
       ELSE IF HasAt(s, i, <<"v","s">>) /\ dotted(2) THEN 3
       ELSE IF HasAt(s, i, <<"v","s">>) /\ WordBoundary(s, i + 2) THEN 2
       ELSE IF HasAt(s, i, <<"v">>) /\ dotted(1) THEN 2
       ELSE IF HasAt(s, i, <<"v">>) /\ WordBoundary(s, i + 1) THEN 1
       ELSE 0

RECURSIVE VersusSplitFrom(_, _, _)
VersusSplitFrom(s, i, st) ==
    IF i > Len(s) THEN <<SubSeq(s, st, Len(s))>>
    ELSE LET n == VersusMatchLen(s, i)
         IN IF n > 0
            THEN <<SubSeq(s, st, i - 1)>> \o VersusSplitFrom(s, i + n, i + n)
            ELSE VersusSplitFrom(s, i + 1, st)

\* supreme_court.split_petitioner_respondent
split_petitioner_respondent(party_text) ==
    IF party_text = <<>> THEN <<NA, NA>>
    ELSE LET text  == StripBrackets(party_text)
             parts == VersusSplitFrom(text, 1, 1)
         IN IF Len(parts) >= 2 THEN <<Strip(parts[1]), Strip(parts[2])>>
            ELSE <<Strip(text), NA>>

----------------------------------------------------------------------------
(* PartyMatcher: the normalizers *)

\* re.sub(r"[^\w\s]", " ", s)
PunctToSpace(s) ==
    [i \in 1..Len(s) |-> IF IsWord(s[i]) \/ IsSpace(s[i]) THEN s[i] ELSE " "]

\* re.sub(r"\s+", " ", s) from index i on
RECURSIVE CollapseFrom(_, _)
CollapseFrom(s, i) ==
    IF i > Len(s) THEN <<>>
    ELSE LET n == SpaceRun(s, i)
         IN IF n > 0 THEN <<" ">> \o CollapseFrom(s, i + n)
            ELSE <<s[i]>> \o CollapseFrom(s, i + 1)

CollapseSpaces(s) == CollapseFrom(s, 1)

\* nclat.normalize
normalize(text) == Strip(CollapseSpaces(PunctToSpace(Lower(text))))

\* the length of the match of \b(ors?|anr|lrs?|&)\b at index i, 0 if none; the
\* alternatives are tried in order, "s?" is greedy and gives the s back when
\* no \b follows it
NoiseMatchLen(s, i) ==
    IF ~WordBoundary(s, i) THEN 0
    ELSE IF HasAt(s, i, <<"o","r","s">>) /\ WordBoundary(s, i + 3) THEN 3
    ELSE IF HasAt(s, i, <<"o","r">>) /\ WordBoundary(s, i + 2) THEN 2
    ELSE IF HasAt(s, i, <<"a","n","r">>) /\ WordBoundary(s, i + 3) THEN 3
    ELSE IF HasAt(s, i, <<"l","r","s">>) /\ WordBoundary(s, i + 3) THEN 3
    ELSE IF HasAt(s, i, <<"l","r">>) /\ WordBoundary(s, i + 2) THEN 2
    ELSE IF HasAt(s, i, <<"&">>) /\ WordBoundary(s, i + 1) THEN 1
    ELSE 0

\* re.sub(r"\b(ors?|anr|lrs?|&)\b", "", s) from index i on
RECURSIVE RemoveNoiseFrom(_, _)
RemoveNoiseFrom(s, i) ==
    IF i > Len(s) THEN <<>>
    ELSE LET n == NoiseMatchLen(s, i)
         IN IF n > 0 THEN RemoveNoiseFrom(s, i + n)
            ELSE <<s[i]>> \o RemoveNoiseFrom(s, i + 1)

RemoveNoise(s) == RemoveNoiseFrom(s, 1)

\* supreme_court.normalize_name
normalize_name(text) ==
    IF text = NULL THEN <<>>
    ELSE Strip(CollapseSpaces(PunctToSpace(RemoveNoise(Lower(text)))))

----------------------------------------------------------------------------
(* PartyMatcher: the page match of the Supreme Court search *)

\* Python's "a in b" for strings
IsSubstring(a, b) ==
    \E i \in 0..(Len(b) - Len(a)) : SubSeq(b, i + 1, i + Len(a)) = a

\* str.split(): the runs of non-whitespace characters, from index i on
RECURSIVE SplitWordsFrom(_, _)
SplitWordsFrom(s, i) ==
    IF i > Len(s) THEN <<>>
    ELSE IF IsSpace(s[i]) THEN SplitWordsFrom(s, i + 1)
    ELSE LET stop == CHOOSE j \in i..Len(s) :
                        /\ \A k \in i..j : ~IsSpace(s[k])
                        /\ j = Len(s) \/ IsSpace(s[j + 1])
         IN <<SubSeq(s, i, stop)>> \o SplitWordsFrom(s, stop + 1)

SplitWords(s) == SplitWordsFrom(s, 1)

\* a page-matching rule with the substring test alone
page_matches_substring_only(name_norm, page_norm) ==
    IsSubstring(name_norm, page_norm)

\* supreme_court.search, phase 1: the test made of one page
page_matches(name_norm, page_norm) ==
    IF IsSubstring(name_norm, page_norm) THEN TRUE
    ELSE LET tokens == SplitWords(name_norm)
         IN /\ tokens # <<>>
            /\ \A k \in 1..Len(tokens) : IsSubstring(tokens[k], page_norm)

----------------------------------------------------------------------------
(* Dates: datetime.strptime, strftime and timedelta(days=1) *)

\* A date string is its three numbers in the order written and the separator
\* between them: "29-02-2024" is [f |-> <<29, 2, 2024>>, sep |-> "-"].
\* A datetime is <<year, month, day>>.

IsLeap(y) == (y % 4 = 0 /\ y % 100 # 0) \/ y % 400 = 0

DaysInMonth(y, m) ==
    IF m = 2 THEN (IF IsLeap(y) THEN 29 ELSE 28)
    ELSE IF m \in {4, 6, 9, 11} THEN 30
    ELSE 31

\* %Y takes four digits, %m a month, %d a day of that month
IsDate(y, m, d) ==
    /\ y >= 1000 /\ y <= 9999
    /\ m >= 1 /\ m <= 12
    /\ d >= 1 /\ d <= DaysInMonth(y, m)

DayFirst == {"bombay", "delhi", "nclat"}

\* the separator of each adapter's format: %d-%m-%Y, %d.%m.%Y, %Y-%m-%d, %d/%m/%Y
FormatSep(court) ==
    CASE court = "bombay"  -> "-"
      [] court = "delhi"   -> "."
      [] court = "supreme" -> "-"
      [] court = "nclat"   -> "/"

\* datetime.strptime(str, format of the court): the datetime, or NULL for ValueError
strptime(court, str) ==
    LET y == IF court \in DayFirst THEN str.f[3] ELSE str.f[1]
        m == str.f[2]
        d == IF court \in DayFirst THEN str.f[1] ELSE str.f[3]
    IN IF str.sep = FormatSep(court) /\ IsDate(y, m, d) THEN <<y, m, d>> ELSE NULL

\* dt.strftime(format of the court)
strftime(court, dt) ==
    [f   |-> IF court \in DayFirst THEN <<dt[3], dt[2], dt[1]>> ELSE dt,
     sep |-> FormatSep(court)]

\* a < b, a <= b for datetimes
DateLess(a, b) ==
    \/ a[1] < b[1]
    \/ a[1] = b[1] /\ a[2] < b[2]
    \/ a[1] = b[1] /\ a[2] = b[2] /\ a[3] < b[3]

DateLeq(a, b) == a = b \/ DateLess(a, b)

\* dt + timedelta(days=1)
NextDay(dt) ==
    IF dt[3] < DaysInMonth(dt[1], dt[2]) THEN <<dt[1], dt[2], dt[3] + 1>>
    ELSE IF dt[2] < 12 THEN <<dt[1], dt[2] + 1, 1>>
    ELSE <<dt[1] + 1, 1, 1>>

\* the message of the exception each search_range raises for a date that does
\* not parse, and for a start after the end
InvalidFormatMessage(court) ==
    CASE court = "bombay"  -> "Invalid date format. Use DD-MM-YYYY for Bombay"
      [] court = "delhi"   -> "Invalid date format. Use DD.MM.YYYY for Delhi"
      [] court = "supreme" -> "Invalid date format. Use YYYY-MM-DD"

StartAfterEndMessage == "Start date cannot be after end date"

----------------------------------------------------------------------------
(* The states of the parts of the model that a specification leaves idle *)

IdleText ==
    /\ txt_fn = ""
    /\ txt_in = <<>>
    /\ txt_out = <<>>
    /\ txt_again = NULL

IdleMatch ==
    /\ m_party = <<>>
    /\ m_name_norm = NULL
    /\ m_index = 0
    /\ m_text = NULL
    /\ matched_pages = {}

IdleRange ==
    /\ r_court = "none"
    /\ r_start = NULL
    /\ r_end = NULL
    /\ r_pc = "idle"
    /\ r_current = NULL
    /\ r_end_dt = NULL
    /\ r_days = <<>>
    /\ all_results = <<>>
    /\ r_error = NULL

Scans == {1, 2}

MaxDocs == 2

DocIds == 1..MaxDocs

NoCall == [id |-> 0, existed |-> FALSE, gets |-> 0]

IdleCache ==
    /\ c_files = [id \in DocIds |-> "absent"]
    /\ c_preexisting = {}
    /\ c_pc = [p \in Scans |-> "idle"]
    /\ c_call = [p \in Scans |-> NoCall]
    /\ c_ret = [p \in Scans |-> "none"]
    /\ c_calls = [p \in Scans |-> 0]
    /\ c_gets = [id \in DocIds |-> 0]
    /\ c_downloaded = [id \in DocIds |-> 0]
    /\ c_returned = [id \in DocIds |-> 0]

IdleNclat ==
    /\ n_start = NULL
    /\ n_end = NULL
    /\ n_pc = "idle"
    /\ n_start_dt = NULL
    /\ n_end_dt = NULL
    /\ n_page = 0
    /\ n_rows_left = 0
    /\ n_stop_paging = FALSE
    /\ n_pdf_files = <<>>
    /\ n_listing_gets = 0
    /\ n_pdf_gets = 0
    /\ n_scanned = 0
    /\ n_results = <<>>
    /\ n_error = NULL
    /\ n_row = NULL

IdleExtract ==
    /\ e_adapter = "none"
    /\ e_pc = "idle"
    /\ e_npages = 0
    /\ e_index = 0
    /\ e_results = <<>>
    /\ e_failed = {}
    /\ e_error = NULL

IdleBrowser ==
    /\ b_fn = "none"
    /\ b_args = FALSE
    /\ b_pc = "idle"
    /\ b_step = 0
    /\ b_session = "none"
    /\ b_rows_left = 0
    /\ b_page = 0
    /\ b_results = <<>>
    /\ b_failed = FALSE
    /\ b_error = NULL
    /\ b_ret = NULL

IdleTable ==
    /\ t_pc = "idle"
    /\ t_rows = <<>>
    /\ t_results = <<>>
    /\ t_current = 0
    /\ t_last_case_no = NULL

IdleWalk ==
    /\ w_pc = "idle"
    /\ w_nodes = <<>>
    /\ w_i = 0
    /\ w_current_bench = NULL
    /\ w_current_time = NULL
    /\ w_current_court_no = NULL
    /\ w_results = <<>>

IdleHints ==
    /\ h_pages = <<>>
    /\ h_start = 0
    /\ h_pc = "idle"
    /\ h_i = 0
    /\ h_judges = <<>>
    /\ h_court_no = ""
    /\ h_court_time = ""

IdlePdf ==
    /\ p_npages = 0
    /\ p_pc = "idle"
    /\ p_name_norm = <<>>
    /\ p_blank = {}
    /\ p_index = 0
    /\ p_table = <<>>
    /\ p_todo = <<>>
    /\ p_results = <<>>

IdleRace == o_opened = {}

\* the parts of the model added for the later operations, all idle
IdleLater == IdleTable /\ IdleWalk /\ IdleHints /\ IdlePdf /\ IdleRace

----------------------------------------------------------------------------
(* The party splitters applied to party strings *)

MaxSplitPieces == 5

SplitPieces ==
    { <<"A">>, <<"B">>, <<" ">>, <<".">>, <<"v">>, <<"v","s">>, <<"V","S">>,
      <<"v","e","r","s","u","s">>, <<"[","x","]">> }

SplitInputs == PiecesUpTo(SplitPieces, MaxSplitPieces)

SplitFns == {"bombay.split_parties", "delhi.split_parties",
             "nclat.split_parties", "supreme_court.split_petitioner_respondent"}

InitText(inputs) ==
    /\ txt_fn = ""
    /\ txt_in \in inputs
    /\ txt_out = <<>>
    /\ txt_again = NULL

ApplyBombaySplit ==
    /\ txt_fn = ""
    /\ txt_fn' = "bombay.split_parties"
    /\ txt_out' = split_parties(txt_in)
    /\ UNCHANGED <<txt_in, txt_again, notText>>

ApplyDelhiSplit ==
    /\ txt_fn = ""
    /\ txt_fn' = "delhi.split_parties"
    /\ txt_out' = delhi_split_parties(txt_in)
    /\ UNCHANGED <<txt_in, txt_again, notText>>

ApplyNclatSplit ==
    /\ txt_fn = ""
    /\ txt_fn' = "nclat.split_parties"
    /\ txt_out' = nclat_split_parties(txt_in)
    /\ UNCHANGED <<txt_in, txt_again, notText>>

ApplySupremeSplit ==
    /\ txt_fn = ""
    /\ txt_fn' = "supreme_court.split_petitioner_respondent"
    /\ txt_out' = split_petitioner_respondent(txt_in)
    /\ UNCHANGED <<txt_in, txt_again, notText>>

InitSplit == InitText(SplitInputs) /\ IdleMatch /\ IdleRange /\ IdleCache /\ IdleNclat
    /\ IdleExtract /\ IdleBrowser /\ IdleLater

NextSplit ==
    \/ ApplyBombaySplit
    \/ ApplyDelhiSplit
    \/ ApplyNclatSplit
    \/ ApplySupremeSplit

SpecSplit == InitSplit /\ [][NextSplit]_vars

\* the names and separators of the claim's examples
PartyNames == { <<"A">>, <<"B">> }

Separators == { <<" ","v","s"," ">>, <<" ","v","e","r","s","u","s"," ">> }

\* C4: every adapter's splitter gives (A, B) for "A vs B" and for "A versus B",
\* and (whole string, "N/A") for a string with no separator.
C4_SplitParties ==
    txt_fn \in SplitFns =>
        /\ \A a \in PartyNames, b \in PartyNames, sep \in Separators :
               txt_in = a \o sep \o b => txt_out = <<a, b>>
        /\ \A a \in PartyNames : txt_in = a => txt_out = <<a, NA>>

----------------------------------------------------------------------------
(* The normalizers applied to strings, and applied again to their results *)

MaxNormLen == 4

NormChars == {"o", "r", "s", "a", "n", "l", "&", ".", " ", "X"}

NormInputs == PiecesUpTo({<<c>> : c \in NormChars}, MaxNormLen)

ApplyNormalizeName ==
    /\ txt_fn = ""
    /\ txt_fn' = "supreme_court.normalize_name"
    /\ txt_out' = normalize_name(txt_in)
    /\ UNCHANGED <<txt_in, txt_again, notText>>

ReapplyNormalizeName ==
    /\ txt_fn = "supreme_court.normalize_name"
    /\ txt_again = NULL
    /\ txt_again' = normalize_name(txt_out)
    /\ UNCHANGED <<txt_fn, txt_in, txt_out, notText>>

ApplyNormalize ==
    /\ txt_fn = ""
    /\ txt_fn' = "nclat.normalize"
    /\ txt_out' = normalize(txt_in)
    /\ UNCHANGED <<txt_in, txt_again, notText>>

ReapplyNormalize ==
    /\ txt_fn = "nclat.normalize"
    /\ txt_again = NULL
    /\ txt_again' = normalize(txt_out)
    /\ UNCHANGED <<txt_fn, txt_in, txt_out, notText>>

InitNorm == InitText(NormInputs) /\ IdleMatch /\ IdleRange /\ IdleCache /\ IdleNclat
    /\ IdleExtract /\ IdleBrowser /\ IdleLater

NextNorm ==
    \/ ApplyNormalizeName
    \/ ReapplyNormalizeName
    \/ ApplyNormalize
    \/ ReapplyNormalize

SpecNorm == InitNorm /\ [][NextNorm]_vars

\* C9: the party-name normalizer is idempotent: normalizing a normalized string
\* changes nothing.
C9_NormalizeIdempotent ==
    txt_again # NULL => txt_again = txt_out

----------------------------------------------------------------------------
(* The Supreme Court search, phase 1: the pages of the cause list are read in
   order and each is tested against the party *)

MaxPartyPieces == 3

MaxTextPieces == 2

MaxPages == 2

MatchPieces == { <<"a">>, <<"b">>, <<" ">> }

MatchParties == PiecesUpTo(MatchPieces, MaxPartyPieces)

PageTexts == PiecesUpTo(MatchPieces, MaxTextPieces)

InitMatch ==
    /\ m_party \in MatchParties
    /\ m_name_norm = NULL
    /\ m_index = 0
    /\ m_text = NULL
    /\ matched_pages = {}
    /\ IdleText
    /\ IdleRange
    /\ IdleCache
    /\ IdleNclat
    /\ IdleExtract
    /\ IdleBrowser
    /\ IdleLater

\* name_norm = normalize_name(party_name)
SearchNormalizeName ==
    /\ m_name_norm = NULL
    /\ m_name_norm' = normalize_name(m_party)
    /\ UNCHANGED <<m_party, m_index, m_text, matched_pages, notMatch>>

\* one turn of "for page_index, page in enumerate(pdf.pages)"; a page without
\* text reads as the empty string
SearchReadPage ==
    /\ m_name_norm # NULL
    /\ m_index < MaxPages
    /\ \E text \in PageTexts :
        /\ m_text' = text
        /\ matched_pages' = IF page_matches(m_name_norm, normalize_name(text))
                            THEN matched_pages \cup {m_index}
                            ELSE matched_pages
    /\ m_index' = m_index + 1
    /\ UNCHANGED <<m_party, m_name_norm, notMatch>>

NextMatch ==
    \/ SearchNormalizeName
    \/ SearchReadPage

SpecMatch == InitMatch /\ [][NextMatch]_vars

\* the whitespace-separated tokens of a string
WholeTokensOf(s) ==
    { SubSeq(s, i, j) : <<i, j>> \in
        { ij \in (1..Len(s)) \X (1..Len(s)) :
            /\ ij[1] <= ij[2]
            /\ \A k \in ij[1]..ij[2] : ~IsSpace(s[k])
            /\ ij[1] = 1 \/ IsSpace(s[ij[1] - 1])
            /\ ij[2] = Len(s) \/ IsSpace(s[ij[2] + 1]) } }

\* the rule the claim states for one page
MatchRule(party, text) ==
    LET np == normalize_name(party)
        nt == normalize_name(text)
    IN \/ IsSubstring(np, nt)
       \/ \A t \in WholeTokensOf(np) : IsSubstring(t, nt)

\* C10: the page last read is in matched_pages exactly when the normalized party
\* is a substring of the normalized page text or every whitespace-separated
\* token of the normalized party occurs in the normalized page text.
C10_PageMarkedIffRule ==
    m_index > 0 => ((m_index - 1 \in matched_pages) <=> MatchRule(m_party, m_text))

\* C10, witness: a page marked by the token rule alone
C10_Witness ==
    /\ m_index > 0
    /\ m_index - 1 \in matched_pages
    /\ ~IsSubstring(normalize_name(m_party), normalize_name(m_text))

----------------------------------------------------------------------------
(* RangeScanner: search_range of the Bombay, Delhi and Supreme Court adapters,
   which call the adapter's search once for each day *)

MaxSpan == 3

MaxDayRecords == 2

DailyCourts == {"bombay", "delhi", "supreme"}

\* the numbers of the dates given: the days around 29 February 2024, a day and
\* a month that do not exist
GivenDates ==
    { <<2024, 2, 28>>, <<2024, 2, 29>>, <<2024, 3, 1>>, <<2024, 3, 2>>,
      <<2023, 2, 29>>, <<2024, 13, 1>> }

\* each written year first and day first, with each separator
DateStrings ==
    { [f |-> g, sep |-> c] : g \in GivenDates, c \in {"-", ".", "/"} }
    \cup { [f |-> <<g[3], g[2], g[1]>>, sep |-> c] :
             g \in GivenDates, c \in {"-", ".", "/"} }

\* the days from 0001-01-01 to the first day of month m of year y
RECURSIVE DaysBeforeMonth(_, _)
DaysBeforeMonth(y, m) ==
    IF m = 1 THEN 0 ELSE DaysBeforeMonth(y, m - 1) + DaysInMonth(y, m - 1)

\* date.toordinal()
Ordinal(dt) ==
    LET y == dt[1] - 1
    IN 365 * y + (y \div 4) - (y \div 100) + (y \div 400)
       + DaysBeforeMonth(dt[1], dt[2]) + dt[3]

\* the range is short enough for the model: it fails, or spans at most MaxSpan days
WithinSpan(court, start, end) ==
    LET start_dt == strptime(court, start)
        end_dt   == strptime(court, end)
    IN IF start_dt = NULL \/ end_dt = NULL THEN TRUE
       ELSE Ordinal(end_dt) - Ordinal(start_dt) < MaxSpan

\* the record lists a day's search may return: up to MaxDayRecords records
\* of that day, in any order
DayResultLists(cause_date) ==
    LET orders == UNION { [1..k -> 1..MaxDayRecords] : k \in 0..MaxDayRecords }
    IN { [i \in 1..Len(q) |-> [searched |-> cause_date, n |-> q[i]]] :
           q \in { o \in orders : \A i, j \in 1..Len(o) : o[i] = o[j] => i = j } }

InitRange ==
    /\ r_court \in DailyCourts
    /\ r_start \in DateStrings
    /\ r_end \in DateStrings
    /\ WithinSpan(r_court, r_start, r_end)
    /\ r_pc = "call"
    /\ r_current = NULL
    /\ r_end_dt = NULL
    /\ r_days = <<>>
    /\ all_results = <<>>
    /\ r_error = NULL
    /\ IdleText
    /\ IdleMatch
    /\ IdleCache
    /\ IdleNclat
    /\ IdleExtract
    /\ IdleBrowser
    /\ IdleLater

\* except ValueError: raise Exception("Invalid date format. ...")
RangeRejectFormat ==
    /\ r_pc = "call"
    /\ r_court \in DailyCourts
    /\ ~(strptime(r_court, r_start) # NULL /\ strptime(r_court, r_end) # NULL)
    /\ r_pc' = "raised"
    /\ r_error' = InvalidFormatMessage(r_court)
    /\ UNCHANGED <<r_court, r_start, r_end, r_current, r_end_dt, r_days,
                   all_results, notRange>>

\* if start_dt > end_dt: raise Exception("Start date cannot be after end date")
RangeRejectOrder ==
    /\ r_pc = "call"
    /\ r_court \in DailyCourts
    /\ strptime(r_court, r_start) # NULL
    /\ strptime(r_court, r_end) # NULL
    /\ DateLess(strptime(r_court, r_end), strptime(r_court, r_start))
    /\ r_pc' = "raised"
    /\ r_error' = StartAfterEndMessage
    /\ UNCHANGED <<r_court, r_start, r_end, r_current, r_end_dt, r_days,
                   all_results, notRange>>

\* all_results = []; current = start_dt
RangeEnterLoop ==
    /\ r_pc = "call"
    /\ r_court \in DailyCourts
    /\ strptime(r_court, r_start) # NULL
    /\ strptime(r_court, r_end) # NULL
    /\ ~DateLess(strptime(r_court, r_end), strptime(r_court, r_start))
    /\ r_pc' = "loop"
    /\ r_current' = strptime(r_court, r_start)
    /\ r_end_dt' = strptime(r_court, r_end)
    /\ all_results' = <<>>
    /\ UNCHANGED <<r_court, r_start, r_end, r_days, r_error, notRange>>

\* a day whose search raises, with the scan given up
RangeSearchRaisesAborts ==
    /\ r_pc = "loop"
    /\ DateLeq(r_current, r_end_dt)
    /\ r_days' = Append(r_days, [date |-> strftime(r_court, r_current),
                                 raised |-> TRUE, result |-> <<>>])
    /\ r_pc' = "raised"
    /\ r_error' = "search failed"
    /\ UNCHANGED <<r_court, r_start, r_end, r_current, r_end_dt, all_results,
                   notRange>>

\* one turn of the loop, the search raising:
\* except Exception as e: print(...); current += timedelta(days=1)
RangeSearchRaises ==
    /\ r_pc = "loop"
    /\ DateLeq(r_current, r_end_dt)
    /\ r_days' = Append(r_days, [date |-> strftime(r_court, r_current),
                                 raised |-> TRUE, result |-> <<>>])
    /\ r_current' = NextDay(r_current)
    /\ UNCHANGED <<r_court, r_start, r_end, r_pc, r_end_dt, all_results,
                   r_error, notRange>>

\* a day whose search returns, its records kept in place of the earlier ones
RangeSearchReturnsReplaces ==
    /\ r_pc = "loop"
    /\ DateLeq(r_current, r_end_dt)
    /\ \E daily_results \in DayResultLists(strftime(r_court, r_current)) :
        /\ r_days' = Append(r_days, [date |-> strftime(r_court, r_current),
                                     raised |-> FALSE,
                                     result |-> daily_results])
        /\ all_results' = daily_results
    /\ r_current' = NextDay(r_current)
    /\ UNCHANGED <<r_court, r_start, r_end, r_pc, r_end_dt, r_error, notRange>>

\* one turn of the loop, the search returning:
\* all_results.extend(daily_results); current += timedelta(days=1)
RangeSearchReturns ==
    /\ r_pc = "loop"
    /\ DateLeq(r_current, r_end_dt)
    /\ \E daily_results \in DayResultLists(strftime(r_court, r_current)) :
        /\ r_days' = Append(r_days, [date |-> strftime(r_court, r_current),
                                     raised |-> FALSE,
                                     result |-> daily_results])
        /\ all_results' = all_results \o daily_results
    /\ r_current' = NextDay(r_current)
    /\ UNCHANGED <<r_court, r_start, r_end, r_pc, r_end_dt, r_error, notRange>>

\* return all_results
RangeReturn ==
    /\ r_pc = "loop"
    /\ ~DateLeq(r_current, r_end_dt)
    /\ r_pc' = "returned"
    /\ UNCHANGED <<r_court, r_start, r_end, r_current, r_end_dt, r_days,
                   all_results, r_error, notRange>>

NextRange ==
    \/ RangeRejectFormat
    \/ RangeRejectOrder
    \/ RangeEnterLoop
    \/ RangeSearchRaises
    \/ RangeSearchReturns
    \/ RangeReturn

SpecRange == InitRange /\ [][NextRange]_vars

\* the dates searched so far are the first days of the range, one each, in order
SearchedInOrder ==
    \A i \in 1..Len(r_days) :
        /\ strptime(r_court, r_days[i].date) # NULL
        /\ Ordinal(strptime(r_court, r_days[i].date))
             = Ordinal(strptime(r_court, r_start)) + i - 1

\* C1: the per-day search is called exactly once for each date from start to
\* end, in ascending order, whichever days raise: a scan that entered its loop
\* never ends in an error, and when it returns it has searched every day.
C1_EveryDaySearchedOnce ==
    /\ r_pc \in {"loop", "returned"} => SearchedInOrder
    /\ r_pc = "raised" => r_days = <<>>
    /\ r_pc = "returned" =>
          Len(r_days) = Ordinal(strptime(r_court, r_end))
                          - Ordinal(strptime(r_court, r_start)) + 1

\* C1, witness: a scan of three days that returned, its first day having raised
C1_Witness ==
    /\ r_pc = "returned"
    /\ Len(r_days) = 3
    /\ r_days[1].raised
    /\ r_days[2].date.f = <<29, 2, 2024>>
    /\ r_days[3].date.f = <<1, 3, 2024>>

\* the records of the days that succeeded, joined in the order of the days
RECURSIVE SuccessfulRecords(_)
SuccessfulRecords(days) ==
    IF days = <<>> THEN <<>>
    ELSE (IF Head(days).raised THEN <<>> ELSE Head(days).result)
         \o SuccessfulRecords(Tail(days))

\* C2: the list built (and returned) is the concatenation, in date order, of
\* the record lists of the days whose search succeeded; a failed day adds
\* nothing and changes nothing.
C2_ResultIsConcatenation ==
    r_pc \in {"loop", "returned"} => all_results = SuccessfulRecords(r_days)

\* C2, witness: a returned scan with a failed day between two days with records
C2_Witness ==
    /\ r_pc = "returned"
    /\ Len(r_days) = 3
    /\ ~r_days[1].raised /\ r_days[1].result # <<>>
    /\ r_days[2].raised
    /\ ~r_days[3].raised /\ Len(r_days[3].result) = 2

----------------------------------------------------------------------------
(* DocumentCache: download_pdf of the Supreme Court adapter. The other adapters
   test the path and download in the same way (nclat.download_pdfs, the Delhi
   search, cerc.fetch_month_pdfs). *)

MaxFetches == 3

InitCache ==
    /\ c_preexisting \in SUBSET DocIds
    /\ c_files = [id \in DocIds |->
                    IF id \in c_preexisting THEN "complete" ELSE "absent"]
    /\ c_pc = [p \in Scans |-> "idle"]
    /\ c_call = [p \in Scans |-> NoCall]
    /\ c_ret = [p \in Scans |-> "none"]
    /\ c_calls = [p \in Scans |-> 0]
    /\ c_gets = [id \in DocIds |-> 0]
    /\ c_downloaded = [id \in DocIds |-> 0]
    /\ c_returned = [id \in DocIds |-> 0]
    /\ IdleText
    /\ IdleMatch
    /\ IdleRange
    /\ IdleNclat
    /\ IdleExtract
    /\ IdleBrowser
    /\ IdleLater

\* pdf_path.exists()
PathExists(id) == c_files[id] # "absent"

\* a download_pdf that sends the request although the path exists
DownloadHitFetchesAgain(p, id) ==
    /\ c_pc[p] = "idle"
    /\ c_calls[p] < MaxFetches
    /\ PathExists(id)
    /\ c_calls' = [c_calls EXCEPT ![p] = @ + 1]
    /\ c_call' = [c_call EXCEPT ![p] = [id |-> id, existed |-> TRUE, gets |-> 0]]
    /\ c_pc' = [c_pc EXCEPT ![p] = "get"]
    /\ UNCHANGED <<c_files, c_preexisting, c_ret, c_gets, c_downloaded,
                   c_returned, notCache>>

\* download_pdf, the path existing: if pdf_path.exists(): return pdf_path
DownloadHit(p, id) ==
    /\ c_pc[p] = "idle"
    /\ c_calls[p] < MaxFetches
    /\ PathExists(id)
    /\ c_calls' = [c_calls EXCEPT ![p] = @ + 1]
    /\ c_call' = [c_call EXCEPT ![p] = [id |-> id, existed |-> TRUE, gets |-> 0]]
    /\ c_ret' = [c_ret EXCEPT ![p] = "path"]
    /\ c_returned' = [c_returned EXCEPT ![id] = @ + 1]
    /\ UNCHANGED <<c_files, c_preexisting, c_pc, c_gets, c_downloaded, notCache>>

\* download_pdf, the path not existing: on to requests.get
DownloadMiss(p, id) ==
    /\ c_pc[p] = "idle"
    /\ c_calls[p] < MaxFetches
    /\ ~PathExists(id)
    /\ c_calls' = [c_calls EXCEPT ![p] = @ + 1]
    /\ c_call' = [c_call EXCEPT ![p] = [id |-> id, existed |-> FALSE, gets |-> 0]]
    /\ c_pc' = [c_pc EXCEPT ![p] = "get"]
    /\ UNCHANGED <<c_files, c_preexisting, c_ret, c_gets, c_downloaded,
                   c_returned, notCache>>

\* a failing request that leaves an empty file at the path
DownloadGetFailsLeavesFile(p) ==
    /\ c_pc[p] = "get"
    /\ \E failure \in {"network error", "error status"} :
        c_ret' = [c_ret EXCEPT ![p] = failure]
    /\ c_gets' = [c_gets EXCEPT ![c_call[p].id] = @ + 1]
    /\ c_call' = [c_call EXCEPT ![p].gets = @ + 1]
    /\ c_files' = [c_files EXCEPT ![c_call[p].id] = "partial"]
    /\ c_pc' = [c_pc EXCEPT ![p] = "idle"]
    /\ UNCHANGED <<c_preexisting, c_calls, c_downloaded, c_returned, notCache>>

\* requests.get raises (a network error), or r.raise_for_status() raises (an
\* error status): the exception leaves download_pdf, nothing is written
DownloadGetFails(p) ==
    /\ c_pc[p] = "get"
    /\ \E failure \in {"network error", "error status"} :
        c_ret' = [c_ret EXCEPT ![p] = failure]
    /\ c_gets' = [c_gets EXCEPT ![c_call[p].id] = @ + 1]
    /\ c_call' = [c_call EXCEPT ![p].gets = @ + 1]
    /\ c_pc' = [c_pc EXCEPT ![p] = "idle"]
    /\ UNCHANGED <<c_files, c_preexisting, c_calls, c_downloaded, c_returned,
                   notCache>>

\* r = requests.get(url, timeout=40); r.raise_for_status() passes
DownloadGetOk(p) ==
    /\ c_pc[p] = "get"
    /\ c_gets' = [c_gets EXCEPT ![c_call[p].id] = @ + 1]
    /\ c_downloaded' = [c_downloaded EXCEPT ![c_call[p].id] = @ + 1]
    /\ c_call' = [c_call EXCEPT ![p].gets = @ + 1]
    /\ c_pc' = [c_pc EXCEPT ![p] = "write"]
    /\ UNCHANGED <<c_files, c_preexisting, c_ret, c_calls, c_returned, notCache>>

\* pdf_path.write_bytes(r.content), opening the file: it exists, truncated
DownloadWriteOpen(p) ==
    /\ c_pc[p] = "write"
    /\ c_files' = [c_files EXCEPT ![c_call[p].id] = "partial"]
    /\ c_pc' = [c_pc EXCEPT ![p] = "writing"]
    /\ UNCHANGED <<c_preexisting, c_call, c_ret, c_calls, c_gets, c_downloaded,
                   c_returned, notCache>>

\* pdf_path.write_bytes(r.content), written and closed; return pdf_path
DownloadWriteClose(p) ==
    /\ c_pc[p] = "writing"
    /\ c_files' = [c_files EXCEPT ![c_call[p].id] = "complete"]
    /\ c_pc' = [c_pc EXCEPT ![p] = "idle"]
    /\ c_ret' = [c_ret EXCEPT ![p] = "path"]
    /\ c_returned' = [c_returned EXCEPT ![c_call[p].id] = @ + 1]
    /\ UNCHANGED <<c_preexisting, c_call, c_calls, c_gets, c_downloaded, notCache>>

\* the fetches of one process
NextCache ==
    \/ \E id \in DocIds : DownloadHit(1, id)
    \/ \E id \in DocIds : DownloadMiss(1, id)
    \/ DownloadGetFails(1)
    \/ DownloadGetOk(1)
    \/ DownloadWriteOpen(1)
    \/ DownloadWriteClose(1)

SpecCache == InitCache /\ [][NextCache]_vars

\* C3: an identity present in the cache is never downloaded again: a call that
\* finds the path sends no request and returns the path, no identity is
\* downloaded twice, and an identity whose path has been returned was
\* downloaded exactly once, unless it was stored before the process started.
C3_NoSecondDownload ==
    /\ \A p \in Scans : c_call[p].existed =>
          c_call[p].gets = 0 /\ c_pc[p] = "idle" /\ c_ret[p] = "path"
    /\ \A id \in DocIds :
          /\ c_downloaded[id] <= 1
          /\ id \in c_preexisting => c_gets[id] = 0
          /\ c_returned[id] > 0 /\ id \notin c_preexisting => c_downloaded[id] = 1

\* C3, witness: an identity fetched twice with one download, the second call
\* returning the stored path
C3_Witness ==
    \E id \in DocIds :
        /\ id \notin c_preexisting
        /\ c_returned[id] = 2
        /\ c_downloaded[id] = 1
        /\ c_call[1] = [id |-> id, existed |-> TRUE, gets |-> 0]
        /\ c_ret[1] = "path"

\* the ways a download fails
DownloadFailures == {"network error", "error status"}

\* the last call of process p failed
LastCallFailed(p) == c_pc[p] = "idle" /\ c_ret[p] \in DownloadFailures

\* C21: a download that fails (network error or error status) leaves the cache
\* unchanged and creates no file for the identity: the failed call returns no
\* path, and a later fetch of the same identity sends the request again
\* instead of returning a missing or empty document; a path returned is
\* always that of a completely written file.
C21_FailedDownloadLeavesCacheUnchanged ==
    /\ [](\A p \in Scans :
            /\ LastCallFailed(p) => ~PathExists(c_call[p].id)
            /\ c_pc[p] = "idle" /\ c_ret[p] = "path" =>
                  c_files[c_call[p].id] = "complete")
    /\ [][\A p \in Scans :
            /\ c_pc[p] = "get" /\ c_pc'[p] = "idle" =>
                  /\ c_ret'[p] \in DownloadFailures
                  /\ c_files' = c_files
            /\ ( /\ LastCallFailed(p)
                 /\ c_calls'[p] = c_calls[p] + 1
                 /\ c_call'[p].id = c_call[p].id )
               => /\ c_pc'[p] = "get"
                  /\ ~c_call'[p].existed
                  /\ c_ret'[p] # "path"]_vars

\* C21, witness: an identity whose first download failed, asked for again,
\* downloaded by the second request and stored
C21_Witness ==
    \E id \in DocIds :
        /\ id \notin c_preexisting
        /\ c_gets[id] = 2
        /\ c_downloaded[id] = 1
        /\ c_returned[id] = 1
        /\ c_files[id] = "complete"
        /\ c_call[1] = [id |-> id, existed |-> FALSE, gets |-> 1]
        /\ c_ret[1] = "path"

----------------------------------------------------------------------------
(* StaticListAdapter: search_range and download_pdfs of the NCLAT adapter *)

MaxListingPages == 2

MaxRows == 2

MaxPdfRows == 1

\* the documents one search selects at most
MaxPdfFiles == 2

\* the dates given to the NCLAT adapter: three days in its format, a day in
\* another format, a day that does not exist
NclatDateStrings ==
    { [f |-> <<29, 2, 2024>>, sep |-> "/"], [f |-> <<1, 3, 2024>>, sep |-> "/"],
      [f |-> <<2, 3, 2024>>, sep |-> "/"], [f |-> <<1, 3, 2024>>, sep |-> "-"],
      [f |-> <<29, 2, 2023>>, sep |-> "/"] }

\* the site lists document k under the k-th day before 2 March 2024
DocDate(k) ==
    CHOOSE dt \in {<<2024, m, d>> : m \in 2..3, d \in 1..29} :
        IsDate(dt[1], dt[2], dt[3]) /\ Ordinal(dt) = Ordinal(<<2024, 3, 2>>) - k

\* the rows the extraction returns for one document: CauseMatch objects
CauseMatchRows ==
    { [case_number |-> "CA-1", parties |-> <<"A", " ", "v", "s", " ", "B">>,
       appellant_counsel |-> "X", respondent_counsel |-> "Y",
       court_no |-> "I", judges |-> "J"],
      [case_number |-> "", parties |-> <<"A">>,
       appellant_counsel |-> "", respondent_counsel |-> "",
       court_no |-> "", judges |-> ""] }

PdfRowLists == UNION { [1..k -> CauseMatchRows] : k \in 0..MaxPdfRows }

\* the dict nclat.search_range builds from one row
nclat_record(r) ==
    LET parts == nclat_split_parties(r.parties)
    IN [case_number |-> r.case_number,
        petitioner  |-> parts[1],
        respondent  |-> parts[2],
        advocates   |-> <<"A: ", r.appellant_counsel, " | R: ",
                          r.respondent_counsel>>,
        court       |-> "NCLAT",
        judge       |-> r.judges,
        court_no    |-> r.court_no,
        date        |-> NULL]

InitNclat ==
    /\ n_start \in NclatDateStrings
    /\ n_end \in NclatDateStrings
    /\ n_pc = "call"
    /\ n_start_dt = NULL
    /\ n_end_dt = NULL
    /\ n_page = 0
    /\ n_rows_left = 0
    /\ n_stop_paging = FALSE
    /\ n_pdf_files = <<>>
    /\ n_listing_gets = 0
    /\ n_pdf_gets = 0
    /\ n_scanned = 0
    /\ n_results = <<>>
    /\ n_error = NULL
    /\ n_row = NULL
    /\ IdleText
    /\ IdleMatch
    /\ IdleRange
    /\ IdleCache
    /\ IdleExtract
    /\ IdleBrowser
    /\ IdleLater

\* datetime.strptime raises ValueError, which leaves search_range
NclatParseFails ==
    /\ n_pc = "call"
    /\ ~(strptime("nclat", n_start) # NULL /\ strptime("nclat", n_end) # NULL)
    /\ n_pc' = "raised"
    /\ n_error' = "ValueError: time data does not match format '%d/%m/%Y'"
    /\ UNCHANGED <<n_row, n_start, n_end, n_start_dt, n_end_dt, n_page, n_rows_left,
                   n_stop_paging, n_pdf_files, n_listing_gets, n_pdf_gets,
                   n_scanned, n_results, c_files, notNclat>>

\* start_dt, end_dt parsed; download_pdfs(start_dt, end_dt) begins
NclatEnter ==
    /\ n_pc = "call"
    /\ strptime("nclat", n_start) # NULL
    /\ strptime("nclat", n_end) # NULL
    /\ n_start_dt' = strptime("nclat", n_start)
    /\ n_end_dt' = strptime("nclat", n_end)
    /\ n_page' = 0
    /\ n_pdf_files' = <<>>
    /\ n_stop_paging' = FALSE
    /\ n_pc' = "page"
    /\ UNCHANGED <<n_row, n_start, n_end, n_rows_left, n_listing_gets, n_pdf_gets,
                   n_scanned, n_results, n_error, c_files, notNclat>>

\* session.get(URL, params={"page": page}) or r.raise_for_status() raises
NclatGetPageFails ==
    /\ n_pc = "page"
    /\ n_listing_gets' = n_listing_gets + 1
    /\ n_pc' = "raised"
    /\ n_error' = "requests.RequestException"
    /\ UNCHANGED <<n_row, n_start, n_end, n_start_dt, n_end_dt, n_page, n_rows_left,
                   n_stop_paging, n_pdf_files, n_pdf_gets, n_scanned, n_results,
                   c_files, notNclat>>

\* the listing page has no rows: if not rows: break
NclatGetEmptyPage ==
    /\ n_pc = "page"
    /\ n_listing_gets' = n_listing_gets + 1
    /\ n_pc' = "scan"
    /\ UNCHANGED <<n_row, n_start, n_end, n_start_dt, n_end_dt, n_page, n_rows_left,
                   n_stop_paging, n_pdf_files, n_pdf_gets, n_scanned, n_results,
                   n_error, c_files, notNclat>>

\* the listing page has rows; the site has MaxListingPages pages with rows
NclatGetPage ==
    /\ n_pc = "page"
    /\ n_page < MaxListingPages
    /\ n_listing_gets' = n_listing_gets + 1
    /\ \E count \in 1..MaxRows : n_rows_left' = count
    /\ n_pc' = "rows"
    /\ UNCHANGED <<n_row, n_start, n_end, n_start_dt, n_end_dt, n_page, n_stop_paging,
                   n_pdf_files, n_pdf_gets, n_scanned, n_results, n_error,
                   c_files, notNclat>>

\* a row passed over: fewer than five cells, or a date that does not parse
NclatRowUnreadable ==
    /\ n_pc = "rows"
    /\ n_rows_left > 0
    /\ n_rows_left' = n_rows_left - 1
    /\ n_row' = NULL
    /\ UNCHANGED <<n_start, n_end, n_pc, n_start_dt, n_end_dt, n_page,
                   n_stop_paging, n_pdf_files, n_listing_gets, n_pdf_gets,
                   n_scanned, n_results, n_error, c_files, notNclat>>

\* a row older than the range passed over as a row newer than it is
NclatRowOlderPassedOver ==
    /\ n_pc = "rows"
    /\ n_rows_left > 0
    /\ \E k \in DocIds :
        /\ n_row' = DocDate(k)
        /\ DateLess(DocDate(k), n_start_dt)
    /\ n_rows_left' = n_rows_left - 1
    /\ UNCHANGED <<n_start, n_end, n_pc, n_start_dt, n_end_dt, n_page,
                   n_stop_paging, n_pdf_files, n_listing_gets, n_pdf_gets,
                   n_scanned, n_results, n_error, c_files, notNclat>>

\* if row_dt < start_dt: stop_paging = True; break (then page += 1 and the
\* while loop ends)
NclatRowOlder ==
    /\ n_pc = "rows"
    /\ n_rows_left > 0
    /\ \E k \in DocIds :
        /\ n_row' = DocDate(k)
        /\ DateLess(DocDate(k), n_start_dt)
    /\ n_stop_paging' = TRUE
    /\ n_page' = n_page + 1
    /\ n_pc' = "scan"
    /\ UNCHANGED <<n_start, n_end, n_start_dt, n_end_dt, n_rows_left,
                   n_pdf_files, n_listing_gets, n_pdf_gets, n_scanned, n_results,
                   n_error, c_files, notNclat>>

\* if row_dt > end_dt: continue
NclatRowNewer ==
    /\ n_pc = "rows"
    /\ n_rows_left > 0
    /\ \E k \in DocIds :
        /\ n_row' = DocDate(k)
        /\ ~DateLess(DocDate(k), n_start_dt)
        /\ DateLess(n_end_dt, DocDate(k))
    /\ n_rows_left' = n_rows_left - 1
    /\ UNCHANGED <<n_start, n_end, n_pc, n_start_dt, n_end_dt, n_page,
                   n_stop_paging, n_pdf_files, n_listing_gets, n_pdf_gets,
                   n_scanned, n_results, n_error, c_files, notNclat>>

\* a row within the range without a link: if not a: continue
NclatRowNoLink ==
    /\ n_pc = "rows"
    /\ n_rows_left > 0
    /\ \E k \in DocIds :
        /\ n_row' = DocDate(k)
        /\ ~DateLess(DocDate(k), n_start_dt)
        /\ ~DateLess(n_end_dt, DocDate(k))
    /\ n_rows_left' = n_rows_left - 1
    /\ UNCHANGED <<n_start, n_end, n_pc, n_start_dt, n_end_dt, n_page,
                   n_stop_paging, n_pdf_files, n_listing_gets, n_pdf_gets,
                   n_scanned, n_results, n_error, c_files, notNclat>>

\* a row within the range whose path exists: pdf_files.append(path)
NclatRowCached ==
    /\ n_pc = "rows"
    /\ n_rows_left > 0
    /\ \E k \in DocIds :
        /\ n_row' = DocDate(k)
        /\ ~DateLess(DocDate(k), n_start_dt)
        /\ ~DateLess(n_end_dt, DocDate(k))
        /\ c_files[k] # "absent"
        /\ Len(n_pdf_files) < MaxPdfFiles
        /\ n_pdf_files' = Append(n_pdf_files, [path |-> k, listed |-> DocDate(k)])
    /\ n_rows_left' = n_rows_left - 1
    /\ UNCHANGED <<n_start, n_end, n_pc, n_start_dt, n_end_dt, n_page,
                   n_stop_paging, n_listing_gets, n_pdf_gets, n_scanned,
                   n_results, n_error, c_files, notNclat>>

\* a row within the range whose path does not exist: the document is asked
\* for and written; pdf_files.append(path)
NclatRowDownload ==
    /\ n_pc = "rows"
    /\ n_rows_left > 0
    /\ \E k \in DocIds :
        /\ n_row' = DocDate(k)
        /\ ~DateLess(DocDate(k), n_start_dt)
        /\ ~DateLess(n_end_dt, DocDate(k))
        /\ c_files[k] = "absent"
        /\ Len(n_pdf_files) < MaxPdfFiles
        /\ c_files' = [c_files EXCEPT ![k] = "complete"]
        /\ n_pdf_files' = Append(n_pdf_files, [path |-> k, listed |-> DocDate(k)])
    /\ n_pdf_gets' = n_pdf_gets + 1
    /\ n_rows_left' = n_rows_left - 1
    /\ UNCHANGED <<n_start, n_end, n_pc, n_start_dt, n_end_dt, n_page,
                   n_stop_paging, n_listing_gets, n_scanned, n_results, n_error,
                   notNclat>>

\* session.get(pdf_url) or pdf.raise_for_status() raises
NclatRowDownloadFails ==
    /\ n_pc = "rows"
    /\ n_rows_left > 0
    /\ \E k \in DocIds :
        /\ n_row' = DocDate(k)
        /\ ~DateLess(DocDate(k), n_start_dt)
        /\ ~DateLess(n_end_dt, DocDate(k))
        /\ c_files[k] = "absent"
    /\ n_pdf_gets' = n_pdf_gets + 1
    /\ n_pc' = "raised"
    /\ n_error' = "requests.RequestException"
    /\ UNCHANGED <<n_start, n_end, n_start_dt, n_end_dt, n_page, n_rows_left,
                   n_stop_paging, n_pdf_files, n_listing_gets, n_scanned,
                   n_results, c_files, notNclat>>

\* the rows of the page are read: page += 1
NclatPageEnd ==
    /\ n_pc = "rows"
    /\ n_rows_left = 0
    /\ n_page' = n_page + 1
    /\ n_pc' = "page"
    /\ UNCHANGED <<n_row, n_start, n_end, n_start_dt, n_end_dt, n_rows_left,
                   n_stop_paging, n_pdf_files, n_listing_gets, n_pdf_gets,
                   n_scanned, n_results, n_error, c_files, notNclat>>

\* if not pdfs: return []
NclatReturnNoPdfs ==
    /\ n_pc = "scan"
    /\ n_pdf_files = <<>>
    /\ n_pc' = "returned"
    /\ UNCHANGED <<n_row, n_start, n_end, n_start_dt, n_end_dt, n_page, n_rows_left,
                   n_stop_paging, n_pdf_files, n_listing_gets, n_pdf_gets,
                   n_scanned, n_results, n_error, c_files, notNclat>>

\* one turn of "for pdf in pdfs": the rows search_party_in_pdf returns are
\* made into records
NclatScanPdf ==
    /\ n_pc = "scan"
    /\ n_scanned < Len(n_pdf_files)
    /\ \E rows \in PdfRowLists :
        n_results' = n_results \o
            [i \in 1..Len(rows) |->
                [rec |-> nclat_record(rows[i]),
                 listed |-> n_pdf_files[n_scanned + 1].listed]]
    /\ n_scanned' = n_scanned + 1
    /\ UNCHANGED <<n_row, n_start, n_end, n_pc, n_start_dt, n_end_dt, n_page,
                   n_rows_left, n_stop_paging, n_pdf_files, n_listing_gets,
                   n_pdf_gets, n_error, c_files, notNclat>>

\* return all_results
NclatReturn ==
    /\ n_pc = "scan"
    /\ n_pdf_files # <<>>
    /\ n_scanned = Len(n_pdf_files)
    /\ n_pc' = "returned"
    /\ UNCHANGED <<n_row, n_start, n_end, n_start_dt, n_end_dt, n_page, n_rows_left,
                   n_stop_paging, n_pdf_files, n_listing_gets, n_pdf_gets,
                   n_scanned, n_results, n_error, c_files, notNclat>>

NextNclat ==
    \/ NclatParseFails
    \/ NclatEnter
    \/ NclatGetPageFails
    \/ NclatGetEmptyPage
    \/ NclatGetPage
    \/ NclatRowUnreadable
    \/ NclatRowOlder
    \/ NclatRowNewer
    \/ NclatRowNoLink
    \/ NclatRowCached
    \/ NclatRowDownload
    \/ NclatRowDownloadFails
    \/ NclatPageEnd
    \/ NclatReturnNoPdfs
    \/ NclatScanPdf
    \/ NclatReturn

SpecNclat == InitNclat /\ [][NextNclat]_vars

\* the fields of a case record
RecordFields ==
    {"case_number", "petitioner", "respondent", "advocates", "court", "judge",
     "court_no", "date"}

\* C5: no field of a returned case record is null: each is a value, "N/A", an
\* empty string or an empty collection.
C5_NoNullField ==
    n_pc = "returned" =>
        \A i \in 1..Len(n_results) :
            \A f \in RecordFields : n_results[i].rec[f] # NULL

\* the dates given do not make a range in the format of the adapter
NotARange(court, start, end) ==
    IF strptime(court, start) = NULL \/ strptime(court, end) = NULL THEN TRUE
    ELSE DateLess(strptime(court, end), strptime(court, start))

\* C8: a search_range given a date that does not parse, or a start after the
\* end, raises an error with a message before any per-day search, any request
\* and any write to the cache.
C8_BadRangeRaisesFirst ==
    /\ r_pc \notin {"idle", "call"} /\ NotARange(r_court, r_start, r_end) =>
          r_pc = "raised" /\ r_error # NULL /\ r_days = <<>>
    /\ n_pc \notin {"idle", "call"} /\ NotARange("nclat", n_start, n_end) =>
          /\ n_pc = "raised" /\ n_error # NULL
          /\ n_listing_gets = 0 /\ n_pdf_gets = 0
          /\ \A k \in DocIds : c_files[k] = "absent"

\* C12: nclat.search_range returns its records in chronological order of the
\* cause-list date of the document each record came from.
C12_RecordsChronological ==
    n_pc = "returned" =>
        \A i, j \in 1..Len(n_results) :
            i < j => DateLeq(n_results[i].listed, n_results[j].listed)

\* C18: the enumeration stops at the first listing row dated before the start:
\* reading such a row sets stop_paging, after which no row is read, no listing
\* page and no document is asked for and no document is added; and every
\* document selected is listed under a date from start to end.
C18_StopsAtFirstOlderRow ==
    /\ [](n_row # NULL /\ DateLess(n_row, n_start_dt) => n_stop_paging)
    /\ [](\A i \in 1..Len(n_pdf_files) :
            /\ DateLeq(n_start_dt, n_pdf_files[i].listed)
            /\ DateLeq(n_pdf_files[i].listed, n_end_dt))
    /\ [][n_stop_paging =>
            /\ n_listing_gets' = n_listing_gets
            /\ n_pdf_gets' = n_pdf_gets
            /\ n_pdf_files' = n_pdf_files
            /\ n_row' = n_row
            /\ n_page' = n_page]_vars

\* C18, witness: a search that returned after stopping at an older row, with a
\* document selected before it and a row of the page left unread
C18_Witness ==
    /\ n_pc = "returned"
    /\ n_stop_paging
    /\ n_pdf_files # <<>>
    /\ n_rows_left > 0
    /\ DateLess(n_row, n_start_dt)

----------------------------------------------------------------------------
(* Structured extraction: the page loops of supreme_court.search,
   nclat.search_party_in_pdf and cerc.search *)

MaxExtractPages == 3

MaxPageRecords == 2

ExtractAdapters == {"supreme", "nclat", "cerc"}

\* the adapters whose request to the extraction service is not inside a try
UnguardedCall == {"supreme", "cerc"}

\* the adapters that pass over an answer that is not in the form asked for:
\* nclat.ai_extract returns [], cerc.search continues after json.loads fails
SkipsUnusableAnswer == {"nclat", "cerc"}

InitExtract ==
    /\ e_adapter \in ExtractAdapters
    /\ e_pc = "pages"
    /\ e_npages \in 1..MaxExtractPages
    /\ e_index = 0
    /\ e_results = <<>>
    /\ e_failed = {}
    /\ e_error = NULL
    /\ IdleText
    /\ IdleMatch
    /\ IdleRange
    /\ IdleCache
    /\ IdleNclat
    /\ IdleBrowser
    /\ IdleLater

\* the records of one page, each remembered by its page
PageRecords(page, count) == [i \in 1..count |-> page]

\* a page without text or without the party: continue
ExtractSkipPage ==
    /\ e_pc = "pages"
    /\ e_index < e_npages
    /\ e_index' = e_index + 1
    /\ UNCHANGED <<e_adapter, e_pc, e_npages, e_results, e_failed, e_error,
                   notExtract>>

\* the extraction answers in the form asked for; its rows are appended
ExtractPageOk ==
    /\ e_pc = "pages"
    /\ e_index < e_npages
    /\ \E count \in 0..MaxPageRecords :
        e_results' = e_results \o PageRecords(e_index + 1, count)
    /\ e_index' = e_index + 1
    /\ UNCHANGED <<e_adapter, e_pc, e_npages, e_failed, e_error, notExtract>>

\* client.chat.completions.create raises where nothing catches it: the
\* exception leaves search
ExtractCallRaises ==
    /\ e_pc = "pages"
    /\ e_index < e_npages
    /\ e_adapter \in UnguardedCall
    /\ e_failed' = e_failed \cup {e_index + 1}
    /\ e_pc' = "raised"
    /\ e_error' = "openai.OpenAIError"
    /\ UNCHANGED <<e_adapter, e_npages, e_index, e_results, notExtract>>

\* client.chat.completions.create raises inside nclat.ai_extract: return []
ExtractCallCaught ==
    /\ e_pc = "pages"
    /\ e_index < e_npages
    /\ e_adapter \notin UnguardedCall
    /\ e_failed' = e_failed \cup {e_index + 1}
    /\ e_index' = e_index + 1
    /\ UNCHANGED <<e_adapter, e_pc, e_npages, e_results, e_error, notExtract>>

\* the answer is not in the form asked for, and the page is passed over
ExtractAnswerSkipped ==
    /\ e_pc = "pages"
    /\ e_index < e_npages
    /\ e_adapter \in SkipsUnusableAnswer
    /\ e_failed' = e_failed \cup {e_index + 1}
    /\ e_index' = e_index + 1
    /\ UNCHANGED <<e_adapter, e_pc, e_npages, e_results, e_error, notExtract>>

\* the answer is not in the form asked for (response_model) and the
\* exception leaves supreme_court.search
ExtractAnswerRaises ==
    /\ e_pc = "pages"
    /\ e_index < e_npages
    /\ e_adapter \notin SkipsUnusableAnswer
    /\ e_failed' = e_failed \cup {e_index + 1}
    /\ e_pc' = "raised"
    /\ e_error' = "ValidationError"
    /\ UNCHANGED <<e_adapter, e_npages, e_index, e_results, notExtract>>

\* return final_results / results
ExtractReturn ==
    /\ e_pc = "pages"
    /\ e_index = e_npages
    /\ e_pc' = "returned"
    /\ UNCHANGED <<e_adapter, e_npages, e_index, e_results, e_failed, e_error,
                   notExtract>>

NextExtract ==
    \/ ExtractSkipPage
    \/ ExtractPageOk
    \/ ExtractCallRaises
    \/ ExtractCallCaught
    \/ ExtractAnswerSkipped
    \/ ExtractAnswerRaises
    \/ ExtractReturn

SpecExtract == InitExtract /\ [][NextExtract]_vars

\* C6: when the structured extraction fails for a matched page, the page
\* contributes no record and the search does not raise.
C6_FailedPageContributesNothing ==
    e_failed # {} =>
        /\ e_pc # "raised"
        /\ \A i \in 1..Len(e_results) : e_results[i] \notin e_failed

----------------------------------------------------------------------------
(* BrowserSession: bombay_high_court.search, delhi_high_court.monitor and
   supreme_court.monitor *)

MaxBrowserRows == 2

MaxMonitorPages == 2

BrowserFns == {"bombay.search", "delhi.monitor", "supreme.monitor"}

\* what each call does with the page before it reads results, in order; every
\* step waits for an element or a page and can time out or find nothing
BrowserSteps(fn) ==
    CASE fn = "bombay.search" ->
            <<"goto", "wait_for_load_state", "click Party", "fill Party Name",
              "evaluate datepicker", "click Search", "wait_for_selector #tb_causelist">>
      [] fn = "delhi.monitor" ->
            <<"get", "party_name", "case_year", "select_by_visible_text",
              "captcha-code", "captchaInput", "search",
              "registrarsTable_processing", "rows present", "registrarsTable">>
      [] fn = "supreme.monitor" ->
            <<"get", "search", "mode", "captcha", "captcha-input",
              "landing_submit">>

\* delhi.monitor waits for the processing mark to go inside try/except: pass
SwallowedStep == "registrarsTable_processing"

\* the dict delhi.monitor builds from a row of the status table
delhi_monitor_record(has_status, has_court_no, has_order, has_judgment) ==
    LET parts == delhi_split_parties(<<"A", " ", "V", "S", " ", "B">>)
    IN [case_number   |-> "W.P.(C) 1/2024",
        status        |-> IF has_status THEN "P" ELSE NULL,
        petitioner    |-> parts[1],
        respondent    |-> parts[2],
        advocates     |-> "N/A",
        listing_info  |-> IF has_court_no THEN "COURT NO 2" ELSE "",
        court         |-> "Delhi High Court",
        court_no      |-> IF has_court_no THEN "2" ELSE NULL,
        order_link    |-> IF has_order THEN "href" ELSE NULL,
        judgment_link |-> IF has_judgment THEN "href" ELSE NULL]

InitBrowser ==
    /\ b_fn \in BrowserFns
    /\ b_args \in BOOLEAN
    /\ b_pc = "call"
    /\ b_step = 0
    /\ b_session = "none"
    /\ b_rows_left = 0
    /\ b_page = 0
    /\ b_results = <<>>
    /\ b_failed = FALSE
    /\ b_error = NULL
    /\ b_ret = NULL
    /\ IdleText
    /\ IdleMatch
    /\ IdleRange
    /\ IdleCache
    /\ IdleNclat
    /\ IdleExtract
    /\ IdleLater

\* bombay.search: if not party_name or not date: return []
BombayReturnNoArgs ==
    /\ b_pc = "call"
    /\ b_fn = "bombay.search"
    /\ ~b_args
    /\ b_ret' = <<>>
    /\ b_pc' = "returned"
    /\ UNCHANGED <<b_fn, b_args, b_step, b_session, b_rows_left, b_page,
                   b_results, b_failed, b_error, notBrowser>>

\* chromium.launch / webdriver.Chrome: the browser is open
BrowserLaunch ==
    /\ b_pc = "call"
    /\ b_fn = "bombay.search" => b_args
    /\ b_session' = "open"
    /\ b_step' = 1
    /\ b_pc' = "steps"
    /\ UNCHANGED <<b_fn, b_args, b_rows_left, b_page, b_results, b_failed,
                   b_error, b_ret, notBrowser>>

\* the step finds its element in time; after the last one the rows (nodes)
\* of the result page are there to be read
BrowserStepOk ==
    /\ b_pc = "steps"
    /\ IF b_step < Len(BrowserSteps(b_fn))
       THEN /\ b_step' = b_step + 1
            /\ UNCHANGED <<b_pc, b_rows_left>>
       ELSE /\ b_pc' = "rows"
            /\ \E count \in 0..MaxBrowserRows : b_rows_left' = count
            /\ UNCHANGED b_step
    /\ UNCHANGED <<b_fn, b_args, b_session, b_page, b_results, b_failed,
                   b_error, b_ret, notBrowser>>

\* bombay.search: the step raises (at wait_for_selector the timeout is made
\* into Exception("Bombay HC: #tb_causelist not found.")); there is no except
\* clause, finally closes the browser and the exception leaves search
BombayStepFails ==
    /\ b_pc = "steps"
    /\ b_fn = "bombay.search"
    /\ b_failed' = TRUE
    /\ b_session' = "closed"
    /\ b_error' = IF b_step = Len(BrowserSteps(b_fn))
                  THEN "Bombay HC: #tb_causelist not found."
                  ELSE "playwright TimeoutError"
    /\ b_pc' = "raised"
    /\ UNCHANGED <<b_fn, b_args, b_step, b_rows_left, b_page, b_results, b_ret,
                   notBrowser>>

\* delhi.monitor: the wait for the processing mark times out: except: pass
DelhiProcessingWaitPasses ==
    /\ b_pc = "steps"
    /\ b_fn = "delhi.monitor"
    /\ BrowserSteps(b_fn)[b_step] = SwallowedStep
    /\ b_step' = b_step + 1
    /\ UNCHANGED <<b_fn, b_args, b_pc, b_session, b_rows_left, b_page,
                   b_results, b_failed, b_error, b_ret, notBrowser>>

\* delhi.monitor: the step raises; except Exception returns [] and finally
\* quits the driver
DelhiStepFails ==
    /\ b_pc = "steps"
    /\ b_fn = "delhi.monitor"
    /\ BrowserSteps(b_fn)[b_step] # SwallowedStep
    /\ b_failed' = TRUE
    /\ b_session' = "closed"
    /\ b_ret' = <<>>
    /\ b_pc' = "returned"
    /\ UNCHANGED <<b_fn, b_args, b_step, b_rows_left, b_page, b_results,
                   b_error, notBrowser>>

\* supreme.monitor: the step raises; nothing catches it and driver.quit() is
\* not reached
SupremeStepFails ==
    /\ b_pc = "steps"
    /\ b_fn = "supreme.monitor"
    /\ b_failed' = TRUE
    /\ b_error' = "selenium TimeoutException"
    /\ b_pc' = "raised"
    /\ UNCHANGED <<b_fn, b_args, b_step, b_session, b_rows_left, b_page,
                   b_results, b_ret, notBrowser>>

\* bombay.search: a node of #tb_causelist is read; the records of a table are
\* added to all_results
BombayReadNode ==
    /\ b_pc = "rows"
    /\ b_fn = "bombay.search"
    /\ b_rows_left > 0
    /\ \E count \in 0..1 :
        b_results' = b_results \o [i \in 1..count |-> "case"]
    /\ b_rows_left' = b_rows_left - 1
    /\ UNCHANGED <<b_fn, b_args, b_pc, b_step, b_session, b_page, b_failed,
                   b_error, b_ret, notBrowser>>

\* bombay.search: return final_results, and finally closes the browser
BombayReturn ==
    /\ b_pc = "rows"
    /\ b_fn = "bombay.search"
    /\ b_rows_left = 0
    /\ b_session' = "closed"
    /\ b_ret' = b_results
    /\ b_pc' = "returned"
    /\ UNCHANGED <<b_fn, b_args, b_step, b_rows_left, b_page, b_results,
                   b_failed, b_error, notBrowser>>

\* delhi.monitor: a row with fewer than four cells or no case text: continue
DelhiSkipRow ==
    /\ b_pc = "rows"
    /\ b_fn = "delhi.monitor"
    /\ b_rows_left > 0
    /\ b_rows_left' = b_rows_left - 1
    /\ UNCHANGED <<b_fn, b_args, b_pc, b_step, b_session, b_page, b_results,
                   b_failed, b_error, b_ret, notBrowser>>

\* delhi.monitor: a row is made into a record
DelhiReadRow ==
    /\ b_pc = "rows"
    /\ b_fn = "delhi.monitor"
    /\ b_rows_left > 0
    /\ \E has_status, has_court_no, has_order, has_judgment \in BOOLEAN :
        b_results' = Append(b_results,
            delhi_monitor_record(has_status, has_court_no, has_order,
                                 has_judgment))
    /\ b_rows_left' = b_rows_left - 1
    /\ UNCHANGED <<b_fn, b_args, b_pc, b_step, b_session, b_page, b_failed,
                   b_error, b_ret, notBrowser>>

\* delhi.monitor: finally quits the driver; return results
DelhiReturn ==
    /\ b_pc = "rows"
    /\ b_fn = "delhi.monitor"
    /\ b_rows_left = 0
    /\ b_session' = "closed"
    /\ b_ret' = b_results
    /\ b_pc' = "returned"
    /\ UNCHANGED <<b_fn, b_args, b_step, b_rows_left, b_page, b_results,
                   b_failed, b_error, notBrowser>>

\* supreme.monitor: the text of a row of the page is appended
SupremeReadRow ==
    /\ b_pc = "rows"
    /\ b_fn = "supreme.monitor"
    /\ b_rows_left > 0
    /\ b_results' = Append(b_results, "row")
    /\ b_rows_left' = b_rows_left - 1
    /\ UNCHANGED <<b_fn, b_args, b_pc, b_step, b_session, b_page, b_failed,
                   b_error, b_ret, notBrowser>>

\* supreme.monitor: the rows of the page are read; record-view is read next
SupremeRowsRead ==
    /\ b_pc = "rows"
    /\ b_fn = "supreme.monitor"
    /\ b_rows_left = 0
    /\ b_page' = b_page + 1
    /\ b_pc' = "record_view"
    /\ UNCHANGED <<b_fn, b_args, b_step, b_session, b_rows_left, b_results,
                   b_failed, b_error, b_ret, notBrowser>>

\* supreme.monitor: find_element(By.ID, "record-view") raises; nothing
\* catches it and driver.quit() is not reached
SupremeRecordViewMissing ==
    /\ b_pc = "record_view"
    /\ b_failed' = TRUE
    /\ b_error' = "selenium NoSuchElementException"
    /\ b_pc' = "raised"
    /\ UNCHANGED <<b_fn, b_args, b_step, b_session, b_rows_left, b_page,
                   b_results, b_ret, notBrowser>>

\* supreme.monitor: end >= total, or nextBtn is disabled, or the try around
\* nextBtn catches: break; driver.quit(); return all_results
SupremeReturn ==
    /\ b_pc = "record_view"
    /\ b_session' = "closed"
    /\ b_ret' = b_results
    /\ b_pc' = "returned"
    /\ UNCHANGED <<b_fn, b_args, b_step, b_rows_left, b_page, b_results,
                   b_failed, b_error, notBrowser>>

\* supreme.monitor: nextBtn is clicked and the next page is read
SupremeNextPage ==
    /\ b_pc = "record_view"
    /\ b_page < MaxMonitorPages
    /\ \E count \in 0..MaxBrowserRows : b_rows_left' = count
    /\ b_pc' = "rows"
    /\ UNCHANGED <<b_fn, b_args, b_step, b_session, b_page, b_results,
                   b_failed, b_error, b_ret, notBrowser>>

NextBrowser ==
    \/ BombayReturnNoArgs
    \/ BrowserLaunch
    \/ BrowserStepOk
    \/ BombayStepFails
    \/ DelhiProcessingWaitPasses
    \/ DelhiStepFails
    \/ SupremeStepFails
    \/ BombayReadNode
    \/ BombayReturn
    \/ DelhiSkipRow
    \/ DelhiReadRow
    \/ DelhiReturn
    \/ SupremeReadRow
    \/ SupremeRowsRead
    \/ SupremeRecordViewMissing
    \/ SupremeReturn
    \/ SupremeNextPage

SpecBrowser == InitBrowser /\ [][NextBrowser]_vars

\* C14: every browser session a search or monitor call opens is closed before
\* the call ends, when it returns and on every failure path.
C14_SessionClosedAtReturn ==
    b_pc \in {"returned", "raised"} => b_session # "open"

\* C7: when the browser automation cannot find an element it expects, or
\* times out, the call returns an empty list and no exception leaves it.
C7_AutomationFailureReturnsEmpty ==
    b_failed =>
        /\ b_pc = "returned"
        /\ b_ret = <<>>
        /\ b_error = NULL

----------------------------------------------------------------------------
(* TableAdapter: extract_cases_from_table of the Bombay adapter *)

MaxTableRows == 3

\* normalize_text of bombay_high_court: runs of white space made one space,
\* the ends stripped
normalize_text(s) == Strip(CollapseSpaces(s))

\* the texts of the leading cell, the case number cell and of a single cell,
\* as the page gives them
ClNoTexts == { <<"0">>, <<" ", "7">>, <<"W", "i", "t", "h">>, <<>> }

CaseNoTexts == { <<>>, <<"a">>, <<"b">> }

RemarkTexts == { <<" ">>, <<"r", " ">> }

PartiesText == <<"A", " ", "v", "s", " ", "B">>

\* the rows of a table: four cells, one cell, or another number of cells
TableRowsGiven ==
    { [cells |-> 4, td |-> <<cl, cn, PartiesText, <<>>>>] :
        cl \in ClNoTexts, cn \in CaseNoTexts }
    \cup { [cells |-> 4, td |-> <<<<"1">>, <<"a">>, PartiesText, <<"X">>>>] }
    \cup { [cells |-> 1, td |-> <<t>>] : t \in RemarkTexts }
    \cup { [cells |-> 2, td |-> <<<<"x">>, <<"y">>>>] }

\* a leading cell that reads as zero is taken not to be a number
is_cl_no_nonzero(cl_no_raw) ==
    /\ cl_no_raw # <<>>
    /\ \A k \in 1..Len(cl_no_raw) : cl_no_raw[k] \in Digits
    /\ \E k \in 1..Len(cl_no_raw) : cl_no_raw[k] # "0"

\* bool(re.fullmatch(r"\d+", cl_no_raw))
is_cl_no(cl_no_raw) ==
    /\ cl_no_raw # <<>>
    /\ \A k \in 1..Len(cl_no_raw) : cl_no_raw[k] \in Digits

\* is_cl_no or (case_no and case_no != last_case_no)
is_new_case(cl_no_raw, case_no, last_case_no) ==
    \/ is_cl_no(cl_no_raw)
    \/ (case_no # <<>> /\ case_no # last_case_no)

\* the dict of a new main case
main_case(case_no, parties, advocates, bench, court_time, court_no, date) ==
    [case_number |-> case_no,
     petitioner  |-> split_parties(parties)[1],
     respondent  |-> split_parties(parties)[2],
     advocates   |-> IF advocates # <<>> THEN advocates ELSE NA,
     court       |-> "Bombay High Court",
     judge       |-> bench,
     court_no    |-> court_no,
     date        |-> date,
     court_time  |-> court_time,
     with_cases  |-> <<>>,
     remarks     |-> <<>>]

\* remarks joined without the newline
add_remark_unseparated(remarks, text) == remarks \o text

\* current_main_case["remarks"] += text if not remarks else "\n" + text
add_remark(remarks, text) ==
    IF remarks = <<>> THEN text ELSE remarks \o <<"\n">> \o text

\* one turn of the row loop: st holds results, current_main_case (its place in
\* results, 0 for None) and last_case_no
TableRowStep(st, row, bench, court_time, court_no, date) ==
    IF row.cells = 4
    THEN LET cl_no_raw == normalize_text(row.td[1])
             case_no   == normalize_text(row.td[2])
             parties   == normalize_text(row.td[3])
             advocates == normalize_text(row.td[4])
         IN IF is_new_case(cl_no_raw, case_no, st.last_case_no)
            THEN [results |-> Append(st.results,
                                main_case(case_no, parties, advocates, bench,
                                          court_time, court_no, date)),
                  current |-> Len(st.results) + 1,
                  last_case_no |-> case_no]
            ELSE IF Lower(cl_no_raw) = <<"w", "i", "t", "h">> /\ st.current # 0
            THEN [st EXCEPT !.results[st.current].with_cases =
                      Append(@, [case_number |-> case_no, details |-> parties])]
            ELSE st
    ELSE IF row.cells = 1 /\ st.current # 0
    THEN LET text == normalize_text(row.td[1])
         IN IF text # <<>>
            THEN [st EXCEPT !.results[st.current].remarks = add_remark(@, text)]
            ELSE st
    ELSE st

InitTable ==
    /\ t_pc = "rows"
    /\ t_rows = <<>>
    /\ t_results = <<>>
    /\ t_current = 0
    /\ t_last_case_no = NULL
    /\ IdleText /\ IdleMatch /\ IdleRange /\ IdleCache /\ IdleNclat
    /\ IdleExtract /\ IdleBrowser
    /\ IdleWalk /\ IdleHints /\ IdlePdf /\ IdleRace

\* for i in range(row_count): the next row of the table is read
TableReadRow ==
    /\ t_pc = "rows"
    /\ Len(t_rows) < MaxTableRows
    /\ \E row \in TableRowsGiven :
        LET st == TableRowStep([results |-> t_results, current |-> t_current,
                                last_case_no |-> t_last_case_no],
                               row, "bench", "court_time", "court_no", "date")
        IN /\ t_rows' = Append(t_rows, row)
           /\ t_results' = st.results
           /\ t_current' = st.current
           /\ t_last_case_no' = st.last_case_no
    /\ UNCHANGED <<t_pc, notTable>>

\* return results
TableReturn ==
    /\ t_pc = "rows"
    /\ t_pc' = "returned"
    /\ UNCHANGED <<t_rows, t_results, t_current, t_last_case_no, notTable>>

NextTable ==
    \/ TableReadRow
    \/ TableReturn

SpecTable == InitTable /\ [][NextTable]_vars

\* the row read by the step, if the step read one
RowRead == t_rows'[Len(t_rows')]

ReadsRow == Len(t_rows') = Len(t_rows) + 1

AllDigits(s) == s # <<>> /\ \A k \in 1..Len(s) : s[k] \in Digits

\* C11: every 4-cell row whose leading cell is all digits, "0" included,
\* starts a new main case: a record with its case number is appended to the
\* results, whatever the case number and whatever rows came before.
C11_DigitRowStartsCase ==
    [][ (ReadsRow /\ RowRead.cells = 4 /\ AllDigits(Strip(RowRead.td[1]))) =>
          /\ Len(t_results') = Len(t_results) + 1
          /\ \A k \in 1..Len(t_results) : t_results'[k] = t_results[k]
          /\ t_results'[Len(t_results')].case_number = Strip(RowRead.td[2])
          /\ t_results'[Len(t_results')].with_cases = <<>>
          /\ t_results'[Len(t_results')].remarks = <<>> ]_vars

\* C11, witness: a row "0" read after a main case of the same case number, both
\* now main cases
C11_Witness ==
    /\ Len(t_rows) = 2
    /\ t_rows[1].cells = 4 /\ t_rows[1].td[1] = <<" ", "7">> /\ t_rows[1].td[2] = <<"a">>
    /\ t_rows[2].cells = 4 /\ t_rows[2].td[1] = <<"0">> /\ t_rows[2].td[2] = <<"a">>
    /\ Len(t_results) = 2

\* C15: a 4-cell row whose leading cell is "with" (any case) and that follows
\* a main case is a linked sub-case: it is appended to the with_cases of the
\* current main case and creates no main record, whatever its case number.
C15_WithRowIsSubCase ==
    [][ (/\ ReadsRow
         /\ RowRead.cells = 4
         /\ Lower(Strip(RowRead.td[1])) = <<"w", "i", "t", "h">>
         /\ t_results # <<>>) =>
          /\ Len(t_results') = Len(t_results)
          /\ t_results' = [t_results EXCEPT ![Len(t_results)].with_cases =
                Append(@, [case_number |-> Strip(RowRead.td[2]),
                           details |-> Strip(CollapseSpaces(RowRead.td[3]))])] ]_vars

----------------------------------------------------------------------------
(* Two scans of one cache: download_pdf called by two searches at once, each
   opening the file whose path it got *)

InitRace ==
    /\ c_preexisting \in SUBSET DocIds
    /\ c_files = [id \in DocIds |->
                    IF id \in c_preexisting THEN "complete" ELSE "absent"]
    /\ c_pc = [p \in Scans |-> "idle"]
    /\ c_call = [p \in Scans |-> NoCall]
    /\ c_ret = [p \in Scans |-> "none"]
    /\ c_calls = [p \in Scans |-> 0]
    /\ c_gets = [id \in DocIds |-> 0]
    /\ c_downloaded = [id \in DocIds |-> 0]
    /\ c_returned = [id \in DocIds |-> 0]
    /\ o_opened = {}
    /\ IdleText /\ IdleMatch /\ IdleRange /\ IdleNclat /\ IdleExtract
    /\ IdleBrowser
    /\ IdleTable /\ IdleWalk /\ IdleHints /\ IdlePdf

\* supreme_court.search: pdfplumber.open(pdf_path), the path being the one
\* download_pdf has just returned to this scan
SearchOpensPdf(p) ==
    /\ c_pc[p] = "idle"
    /\ c_ret[p] = "path"
    /\ o_opened' = o_opened \cup
          { [scan |-> p, id |-> c_call[p].id, file |-> c_files[c_call[p].id]] }
    /\ UNCHANGED <<cacheVars, notRace>>

\* the steps of the two scans, in any order
NextRace ==
    \/ \E p \in Scans, id \in DocIds : DownloadHit(p, id)
    \/ \E p \in Scans, id \in DocIds : DownloadMiss(p, id)
    \/ \E p \in Scans : DownloadGetFails(p)
    \/ \E p \in Scans : DownloadGetOk(p)
    \/ \E p \in Scans : DownloadWriteOpen(p)
    \/ \E p \in Scans : DownloadWriteClose(p)
    \/ \E p \in Scans : SearchOpensPdf(p)

SpecRace == InitRace /\ [][NextRace]_vars

\* C13: under any interleaving of two scans that fetch the same identity, each
\* scan downloads it at most once (a call that finds the path sends no
\* request, and the identity is downloaded no more often than there are
\* scans), and no scan opens a file that is on disk but not completely
\* written.
C13_RaceNeverShowsPartialFile ==
    /\ \A p \in Scans : c_call[p].existed => c_call[p].gets = 0
    /\ \A id \in DocIds : c_downloaded[id] <= Cardinality(Scans)
    /\ \A o \in o_opened : o.file = "complete"

----------------------------------------------------------------------------
(* TableAdapter: the walk of bombay.search over the h3 and table nodes of
   #tb_causelist *)

MaxNodes == 4

\* the h3 and table nodes of the page. A heading is known by what the
\* patterns of the walk find in its text: judges (HON'BLE ...), a session
\* time (AT hh.mm A.M.), a court number (COURT NO n); "" for what it does not
\* state. The headings of the model state no date, and the tables state none
\* of the three.
WalkNodesGiven ==
    { [tag |-> "h3", judges |-> "J1", time |-> "", court_no |-> ""],
      [tag |-> "h3", judges |-> "J2", time |-> "", court_no |-> ""],
      [tag |-> "h3", judges |-> "", time |-> "t1", court_no |-> "1"],
      [tag |-> "h3", judges |-> "", time |-> "t2", court_no |-> "2"],
      [tag |-> "h3", judges |-> "", time |-> "", court_no |-> ""],
      [tag |-> "table", judges |-> "", time |-> "", court_no |-> ""] }

\* the rows of every table of the model: one main case
WalkTableRows ==
    << [cells |-> 4, td |-> <<<<"1">>, <<"a">>, PartiesText, <<>>>>] >>

\* extract_cases_from_table: the row loop over all the rows of a table
RECURSIVE TableRowsFrom(_, _, _, _, _, _, _)
TableRowsFrom(st, rows, i, bench, court_time, court_no, date) ==
    IF i > Len(rows) THEN st
    ELSE TableRowsFrom(TableRowStep(st, rows[i], bench, court_time, court_no, date),
                       rows, i + 1, bench, court_time, court_no, date)

extract_cases_from_table(rows, bench, court_time, court_no, date) ==
    TableRowsFrom([results |-> <<>>, current |-> 0, last_case_no |-> NULL],
                  rows, 1, bench, court_time, court_no, date).results

\* re.search(pattern, preceding_text): the first place in the text of the
\* whole container (container.inner_text()) where the hint is stated, "" for
\* no match; nodes is the container, hint the field the pattern looks for
RECURSIVE FirstStatedFrom(_, _, _)
FirstStatedFrom(nodes, i, hint) ==
    IF i > Len(nodes) THEN ""
    ELSE IF nodes[i][hint] # "" THEN nodes[i][hint]
    ELSE FirstStatedFrom(nodes, i + 1, hint)

FirstStated(nodes, hint) == FirstStatedFrom(nodes, 1, hint)

InitWalk ==
    /\ w_nodes \in UNION { [1..n -> WalkNodesGiven] : n \in 0..MaxNodes }
    /\ w_pc = "walk"
    /\ w_i = 0
    /\ w_current_bench = "N/A"
    /\ w_current_time = "N/A"
    /\ w_current_court_no = "N/A"
    /\ w_results = <<>>
    /\ IdleText /\ IdleMatch /\ IdleRange /\ IdleCache /\ IdleNclat
    /\ IdleExtract /\ IdleBrowser
    /\ IdleTable /\ IdleHints /\ IdlePdf /\ IdleRace

\* tag == "h3": the heading names judges and becomes current_bench, or not
WalkHeading ==
    /\ w_pc = "walk"
    /\ w_i < Len(w_nodes)
    /\ w_nodes[w_i + 1].tag = "h3"
    /\ w_current_bench' = IF w_nodes[w_i + 1].judges # ""
                          THEN w_nodes[w_i + 1].judges
                          ELSE w_current_bench
    /\ w_i' = w_i + 1
    /\ UNCHANGED <<w_pc, w_nodes, w_current_time, w_current_court_no, w_results,
                   notWalk>>

\* tag == "table": time and court number are searched in the text of the
\* container, and the cases of the table are added to all_results
WalkTable ==
    /\ w_pc = "walk"
    /\ w_i < Len(w_nodes)
    /\ w_nodes[w_i + 1].tag = "table"
    /\ LET time_match     == FirstStated(w_nodes, "time")
           court_time     == IF time_match # "" THEN time_match
                             ELSE w_current_time
           court_no_match == FirstStated(w_nodes, "court_no")
           court_no       == IF court_no_match # "" THEN court_no_match
                             ELSE w_current_court_no
       IN /\ w_current_time' = court_time
          /\ w_current_court_no' = court_no
          /\ w_results' = w_results \o
                extract_cases_from_table(WalkTableRows, w_current_bench,
                                         court_time, court_no, "date")
    /\ w_i' = w_i + 1
    /\ UNCHANGED <<w_pc, w_nodes, w_current_bench, notWalk>>

\* the nodes are walked
WalkReturn ==
    /\ w_pc = "walk"
    /\ w_i = Len(w_nodes)
    /\ w_pc' = "returned"
    /\ UNCHANGED <<w_nodes, w_i, w_current_bench, w_current_time,
                   w_current_court_no, w_results, notWalk>>

NextWalk ==
    \/ WalkHeading
    \/ WalkTable
    \/ WalkReturn

SpecWalk == InitWalk /\ [][NextWalk]_vars

\* what the most recent of the first n nodes that states the hint states,
\* "N/A" if none does
RECURSIVE LastStatedBefore(_, _, _)
LastStatedBefore(nodes, n, hint) ==
    IF n = 0 THEN "N/A"
    ELSE IF nodes[n][hint] # "" THEN nodes[n][hint]
    ELSE LastStatedBefore(nodes, n - 1, hint)

\* the places of the table nodes, in document order
TablePlaces(nodes) ==
    LET places == { i \in 1..Len(nodes) : nodes[i].tag = "table" }
        \* the k-th smallest place
        Kth(k) == CHOOSE i \in places :
                      Cardinality({ j \in places : j < i }) = k - 1
    IN [k \in 1..Cardinality(places) |-> Kth(k)]

\* C16: the bench, court number and session time of the cases of each table
\* are those of the most recent heading before that table that states them; a
\* later heading supersedes an earlier one and touches no earlier table.
C16_HeadingCarriedForward ==
    w_pc = "returned" =>
        /\ Len(w_results) = Len(TablePlaces(w_nodes))
        /\ \A k \in 1..Len(w_results) :
            LET place == TablePlaces(w_nodes)[k]
            IN /\ w_results[k].judge = LastStatedBefore(w_nodes, place - 1, "judges")
               /\ w_results[k].court_no = LastStatedBefore(w_nodes, place - 1, "court_no")
               /\ w_results[k].court_time = LastStatedBefore(w_nodes, place - 1, "time")

----------------------------------------------------------------------------
(* Structural hints of a PDF page: extract_judge_court_time of the Supreme
   Court adapter *)

MaxHintPages == 3

\* what the patterns find on a page: the court number (COURT NO n), the
\* session time (COURT TIME t), the judges (HON'BLE ... , one match each, as
\* they stand on the page); "" and <<>> for what the page does not state
HintPagesGiven ==
    { [court_no |-> c, court_time |-> t, judges |-> j] :
        c \in {"", "1", "2"}, t \in {"", "10:30"},
        j \in { <<>>, << <<"J">> >>, << <<"K", " ">>, <<"K">> >> } }

\* list(dict.fromkeys(names)): the names without repeats, first places kept
RECURSIVE FromKeys(_, _)
FromKeys(names, seen) ==
    IF names = <<>> THEN <<>>
    ELSE IF Head(names) \in seen THEN FromKeys(Tail(names), seen)
    ELSE <<Head(names)>> \o FromKeys(Tail(names), seen \cup {Head(names)})

\* [j.strip() for j in judge_matches]
StripAll(names) == [k \in 1..Len(names) |-> Strip(names[k])]

\* ", ".join(judges)
RECURSIVE JoinJudges(_)
JoinJudges(judges) ==
    IF judges = <<>> THEN <<>>
    ELSE IF Len(judges) = 1 THEN judges[1]
    ELSE judges[1] \o <<",", " ">> \o JoinJudges(Tail(judges))

InitHints ==
    /\ h_pages \in UNION { [1..n -> HintPagesGiven] : n \in 1..MaxHintPages }
    /\ h_start \in 0..(Len(h_pages) - 1)
    /\ h_pc = "scan"
    /\ h_i = h_start
    /\ h_judges = <<>>
    /\ h_court_no = ""
    /\ h_court_time = ""
    /\ IdleText /\ IdleMatch /\ IdleRange /\ IdleCache /\ IdleNclat
    /\ IdleExtract /\ IdleBrowser
    /\ IdleTable /\ IdleWalk /\ IdlePdf /\ IdleRace

\* court_no and court_time after page i is read
HintsAfterPage(page) ==
    [court_no   |-> IF h_court_no = "" /\ page.court_no # ""
                    THEN page.court_no ELSE h_court_no,
     court_time |-> IF h_court_time = "" /\ page.court_time # ""
                    THEN page.court_time ELSE h_court_time]

\* a turn of the loop on a page that names no judges; after page 0 the loop
\* ends and the function returns
HintScanPage ==
    /\ h_pc = "scan"
    /\ h_pages[h_i + 1].judges = <<>>
    /\ h_court_no' = HintsAfterPage(h_pages[h_i + 1]).court_no
    /\ h_court_time' = HintsAfterPage(h_pages[h_i + 1]).court_time
    /\ IF h_i > 0
       THEN h_i' = h_i - 1 /\ UNCHANGED h_pc
       ELSE h_pc' = "returned" /\ UNCHANGED h_i
    /\ UNCHANGED <<h_pages, h_start, h_judges, notHints>>

\* a turn of the loop on a page that names judges: judges = ...; break
HintScanJudgesPage ==
    /\ h_pc = "scan"
    /\ h_pages[h_i + 1].judges # <<>>
    /\ h_court_no' = HintsAfterPage(h_pages[h_i + 1]).court_no
    /\ h_court_time' = HintsAfterPage(h_pages[h_i + 1]).court_time
    /\ h_judges' = FromKeys(StripAll(h_pages[h_i + 1].judges), {})
    /\ h_pc' = "returned"
    /\ UNCHANGED <<h_pages, h_start, h_i, notHints>>

NextHints ==
    \/ HintScanPage
    \/ HintScanJudgesPage

SpecHints == InitHints /\ [][NextHints]_vars

\* the nearest page at or before page index i that states the hint, 0-based;
\* -1 if no page from the first to page i states it
PageStates(page, hint) ==
    IF hint = "judges" THEN page.judges # <<>> ELSE page[hint] # ""

RECURSIVE NearestStating(_, _, _)
NearestStating(pages, i, hint) ==
    IF i < 0 THEN -1
    ELSE IF PageStates(pages[i + 1], hint) THEN i
    ELSE NearestStating(pages, i - 1, hint)

\* C17: each hint extract_judge_court_time returns for a matched page is the
\* value stated on the nearest page at or before it that states that hint,
\* and is empty only if no page from the first to the matched page states it.
C17_HintFromNearestPage ==
    h_pc = "returned" =>
        LET c == NearestStating(h_pages, h_start, "court_no")
            t == NearestStating(h_pages, h_start, "court_time")
            j == NearestStating(h_pages, h_start, "judges")
        IN /\ h_court_no = IF c < 0 THEN "" ELSE h_pages[c + 1].court_no
           /\ h_court_time = IF t < 0 THEN "" ELSE h_pages[t + 1].court_time
           /\ JoinJudges(h_judges) =
                IF j < 0 THEN <<>>
                ELSE JoinJudges(FromKeys(StripAll(h_pages[j + 1].judges), {}))

----------------------------------------------------------------------------
(* The two phases of supreme_court.search: the matched pages are collected in
   a set, and phase 2 visits them in the order in which the set yields them *)

MaxPdfPages == 9
MaxMatchedPages == 4
MaxAnswerItems == 1

\* matched_pages is a CPython set of small non-negative ints (hash(n) = n): an
\* open-addressing table of 8 slots, -1 for a free slot, that is rebuilt with
\* more slots when three fifths of it are filled
NewSetTable(size) == [k \in 0..(size - 1) |-> -1]

SetMask(t) == Cardinality(DOMAIN t) - 1

SetFill(t) == Cardinality({k \in DOMAIN t : t[k] # -1})

SetHolds(t, x) == \E k \in DOMAIN t : t[k] = x

LeastOf(S) == CHOOSE m \in S : \A k \in S : m <= k

\* the slot in which x is found or put: the slot of its hash, the nine slots
\* after it when the table has them, and then the slots of the perturbed
\* sequence i = (i * 5 + 1 + perturb) & mask with perturb >>= 5
RECURSIVE SetSlot(_, _, _, _)
SetSlot(t, x, i, perturb) ==
    LET mask == SetMask(t)
        span == IF i + 9 <= mask THEN i..(i + 9) ELSE {i}
        hits == {k \in span : t[k] \in {-1, x}}
    IN IF hits # {} THEN LeastOf(hits)
       ELSE SetSlot(t, x, (i * 5 + 1 + (perturb \div 32)) % (mask + 1),
                    perturb \div 32)

SetInsert(t, x) == [t EXCEPT ![SetSlot(t, x, x % (SetMask(t) + 1), x)] = x]

\* the least power of two, from size on, that is greater than minused
RECURSIVE SetTableSize(_, _)
SetTableSize(size, minused) ==
    IF size > minused THEN size ELSE SetTableSize(2 * size, minused)

\* the entries of old from slot k on, put into new in slot order
RECURSIVE SetRebuild(_, _, _)
SetRebuild(new, old, k) ==
    IF k > SetMask(old) THEN new
    ELSE IF old[k] = -1 THEN SetRebuild(new, old, k + 1)
    ELSE SetRebuild(SetInsert(new, old[k]), old, k + 1)

\* matched_pages.add(x)
SetAdd(t, x) ==
    IF SetHolds(t, x) THEN t
    ELSE LET u == SetInsert(t, x)
         IN IF SetFill(u) * 5 < SetMask(u) * 3 THEN u
            ELSE SetRebuild(NewSetTable(SetTableSize(8, SetFill(u) * 4)), u, 0)

\* for page_index in matched_pages: the entries from slot k on, in slot order
RECURSIVE SetOrder(_, _)
SetOrder(t, k) ==
    IF k > SetMask(t) THEN <<>>
    ELSE IF t[k] = -1 THEN SetOrder(t, k + 1)
    ELSE <<t[k]>> \o SetOrder(t, k + 1)

\* the records one page adds to final_results: the page and the place of the
\* item in the answer
PdfPageRecords(page, n) == [k \in 1..n |-> [page |-> page, item |-> k]]

InitPdf ==
    /\ p_npages \in 1..MaxPdfPages
    /\ p_name_norm \in {<<>>, <<"a">>}
    /\ p_pc = "phase1"
    /\ p_blank = {}
    /\ p_index = 0
    /\ p_table = NewSetTable(8)
    /\ p_todo = <<>>
    /\ p_results = <<>>
    /\ IdleText /\ IdleMatch /\ IdleRange /\ IdleCache /\ IdleNclat
    /\ IdleExtract /\ IdleBrowser
    /\ IdleTable /\ IdleWalk /\ IdleHints /\ IdleRace

\* phase 1, a page with text in which the name or all its tokens are found
\* (any page with text when name_norm is empty)
PdfPageMatches ==
    /\ p_pc = "phase1"
    /\ p_index < p_npages
    /\ SetFill(p_table) < MaxMatchedPages
    /\ p_table' = SetAdd(p_table, p_index)
    /\ p_index' = p_index + 1
    /\ UNCHANGED <<p_npages, p_pc, p_name_norm, p_blank, p_todo, p_results,
                   notPdf>>

\* phase 1, a page without text: text = "", and "" holds only the empty name
PdfBlankPageMatches ==
    /\ p_pc = "phase1"
    /\ p_index < p_npages
    /\ p_name_norm = <<>>
    /\ SetFill(p_table) < MaxMatchedPages
    /\ p_table' = SetAdd(p_table, p_index)
    /\ p_blank' = p_blank \cup {p_index}
    /\ p_index' = p_index + 1
    /\ UNCHANGED <<p_npages, p_pc, p_name_norm, p_todo, p_results, notPdf>>

\* phase 1, a page in which the name is not found
PdfPageNoMatch ==
    /\ p_pc = "phase1"
    /\ p_index < p_npages
    /\ p_name_norm # <<>>
    /\ p_index' = p_index + 1
    /\ UNCHANGED <<p_npages, p_pc, p_name_norm, p_blank, p_table, p_todo,
                   p_results, notPdf>>

\* if not matched_pages: return []
PdfReturnNoMatch ==
    /\ p_pc = "phase1"
    /\ p_index = p_npages
    /\ SetFill(p_table) = 0
    /\ p_pc' = "returned"
    /\ UNCHANGED <<p_npages, p_name_norm, p_blank, p_index, p_table, p_todo,
                   p_results, notPdf>>

\* phase 2 begins: the loop takes the pages as the set yields them
PdfBeginPhase2 ==
    /\ p_pc = "phase1"
    /\ p_index = p_npages
    /\ SetFill(p_table) > 0
    /\ p_todo' = SetOrder(p_table, 0)
    /\ p_pc' = "phase2"
    /\ UNCHANGED <<p_npages, p_name_norm, p_blank, p_index, p_table,
                   p_results, notPdf>>

\* if not focused_text: continue
PdfSkipBlankPage ==
    /\ p_pc = "phase2"
    /\ p_todo # <<>>
    /\ Head(p_todo) \in p_blank
    /\ p_todo' = Tail(p_todo)
    /\ UNCHANGED <<p_npages, p_pc, p_name_norm, p_blank, p_index, p_table,
                   p_results, notPdf>>

\* the extraction call answers with n items, one record is appended for each
PdfPageExtracted ==
    /\ p_pc = "phase2"
    /\ p_todo # <<>>
    /\ Head(p_todo) \notin p_blank
    /\ \E n \in 0..MaxAnswerItems :
         p_results' = p_results \o PdfPageRecords(Head(p_todo), n)
    /\ p_todo' = Tail(p_todo)
    /\ UNCHANGED <<p_npages, p_pc, p_name_norm, p_blank, p_index, p_table,
                   notPdf>>

\* the extraction call raises: nothing in search catches it
PdfCallRaises ==
    /\ p_pc = "phase2"
    /\ p_todo # <<>>
    /\ Head(p_todo) \notin p_blank
    /\ p_pc' = "raised"
    /\ UNCHANGED <<p_npages, p_name_norm, p_blank, p_index, p_table, p_todo,
                   p_results, notPdf>>

\* return final_results
PdfReturn ==
    /\ p_pc = "phase2"
    /\ p_todo = <<>>
    /\ p_pc' = "returned"
    /\ UNCHANGED <<p_npages, p_name_norm, p_blank, p_index, p_table, p_todo,
                   p_results, notPdf>>

NextPdf ==
    \/ PdfPageMatches
    \/ PdfBlankPageMatches
    \/ PdfPageNoMatch
    \/ PdfReturnNoMatch
    \/ PdfBeginPhase2
    \/ PdfSkipBlankPage
    \/ PdfPageExtracted
    \/ PdfCallRaises
    \/ PdfReturn

SpecPdf == InitPdf /\ [][NextPdf]_vars

\* C19: within one PDF search the returned records are ordered by page:
\* records of a lower-numbered matched page precede those of a
\* higher-numbered matched page.
C19_RecordsOrderedByPage ==
    p_pc = "returned" =>
        \A a, b \in DOMAIN p_results :
            a < b => p_results[a].page <= p_results[b].page

====
